---- MODULE Spec2Model ----
(***************************************************************************)
(* Meshing core of scad_tree: the ear-clipping triangulator                *)
(* (src/scad_tree/src/triangulate.rs) and the polyhedron builders          *)
(* (src/scad_tree/src/dim3.rs).                                            *)
(*                                                                         *)
(* Numbers.  Every coordinate drawn by Init is a small integer, so every   *)
(* f64 the triangulator computes is exact, except where a comment says     *)
(* how the rounding is modelled.  Rust vectors are 0-based; At(s, i)       *)
(* reads the element the code writes s[i].                                 *)
(***************************************************************************)
EXTENDS Integers, Sequences, FiniteSets, TLC

\* ---------------------------------------------------------------- bounds
MaxX == 2        \* profile x coordinates are 0..MaxX
MaxY == 2        \* profile y coordinates are 0..MaxY
MaxN == 5        \* longest vertex list given to the triangulator
MaxProfile == 4  \* longest profile given to a builder
MaxHeight == 2   \* linear_extrude heights are 1..MaxHeight
MaxSegments == 4 \* rotate_extrude segment counts are 2..MaxSegments
MaxPath == 3     \* longest sweep path
MaxT == 2        \* sweep path points lie at 0..MaxT along an axis
MaxRadius == 10  \* circle and polygon radii are 1..MaxRadius
MaxSize == 3     \* rectangle, chamfer and star sizes are 1..MaxSize
MaxArc == 12     \* most segments asked of arc / circle
MaxCurves == 3   \* a Bezier chain is grown to at most MaxCurves curves
MaxUp == 3       \* up vectors have coordinates in -MaxUp..MaxUp
MaxM == 104      \* thread sizes up to MaxM are looked up
MaxChildren == 3 \* most children handed to union! / difference! / intersection!
MaxNodes == 4    \* the children handed to one call hold at most MaxNodes nodes
MaxLength == 2   \* threaded lengths are 1..MaxLength (pitch 1)
MaxShift == 1    \* translation components are -MaxShift..MaxShift
MaxNewsize == 2  \* resize dimensions are 0..MaxNewsize
MaxConvexity == 2 \* resize convexity is 1..MaxConvexity

\* ------------------------------------------------------ program constants
MinLen == 3      \* assert!(vertices.len() > 3)

VARIABLES
    vertices,    \* the Pt2s handed to triangulate2d / the builders' profile
    polygon,     \* triangulate: the working ring, Vec<(u64, Pt2)>
    triangles,   \* triangulate: the Indices being built
    pc,          \* position of the call: "call", "loop", "returned", "panicked"
    call,        \* the builder call made, [op |-> "none"] before it
    mesh,        \* the Polyhedron a builder returned, NoMesh before / on panic
    chain,       \* a CubicBezierChain2D / 3D: its curves and its closed flag
    result       \* the value returned by the call of a function of dim2.rs,
                 \* mt4.rs, metric_thread.rs or scad.rs, NoResult before

vars == <<vertices, polygon, triangles, pc, call, mesh, chain, result>>

\* ------------------------------------------------------------- utilities
Abs(x) == IF x < 0 THEN -x ELSE x
Sign(x) == IF x < 0 THEN -1 ELSE IF x > 0 THEN 1 ELSE 0
At(s, i) == s[i + 1]
MinOf(S) == CHOOSE m \in S : \A k \in S : m <= k
RemoveAtKeep(s, i) == s

RemoveAt(s, i) == SubSeq(s, 1, i) \o SubSeq(s, i + 2, Len(s))

\* (u64, Pt2) is <<index, <<x, y>>>>
PtX(e) == e[2][1]
PtY(e) == e[2][2]

\* approx_eq(a, b, 1.0e-5) on integer-valued operands: |a - b| < 1.0e-5
\* holds exactly when the integers are equal.
approx_eq(a, b) == Abs(a - b) = 0

\* -------------------------------------------------------- triangulate.rs
is_ccw_flipped(pts) ==
    (PtX(pts[2]) - PtX(pts[1])) * (PtY(pts[3]) - PtY(pts[1]))
      - (PtX(pts[3]) - PtX(pts[1])) * (PtY(pts[2]) - PtY(pts[1])) < 0

is_ccw_never(pts) == FALSE

is_ccw(pts) ==
    (PtX(pts[2]) - PtX(pts[1])) * (PtY(pts[3]) - PtY(pts[1]))
      - (PtX(pts[3]) - PtX(pts[1])) * (PtY(pts[2]) - PtY(pts[1])) > 0

\* gamma = 1.0 - alpha - beta with alpha = (1/denom)*na, beta = (1/denom)*nb.
\* When denom - na - nb # 0 the exact value is a nonzero multiple of 1/denom,
\* far from the rounding error, and its sign is the exact sign.  When it is
\* 0 the f64 result is 0 or a rounding residue; for |denom| <= 9 IEEE-754
\* double arithmetic leaves a negative residue exactly for |denom| = 5 and
\* |na| in {2, 3, 4}.
GammaNegative(denom, na, nb) ==
    IF denom - na - nb # 0
    THEN Sign(denom) * (denom - na - nb) < 0
    ELSE Abs(denom) = 5 /\ Abs(na) \in {2, 3, 4}

in_triangle(p, a, b, c) ==
    LET denom == (PtY(b) - PtY(c)) * (PtX(a) - PtX(c))
                   + (PtX(c) - PtX(b)) * (PtY(a) - PtY(c))
        na == (PtY(b) - PtY(c)) * (PtX(p) - PtX(c))
                + (PtX(c) - PtX(b)) * (PtY(p) - PtY(c))
        nb == (PtY(c) - PtY(a)) * (PtX(p) - PtX(c))
                + (PtX(a) - PtX(c)) * (PtY(p) - PtY(c))
    IN  IF approx_eq(denom, 0) THEN TRUE
        ELSE IF Sign(denom) * na < 0 THEN FALSE
        ELSE IF Sign(denom) * nb < 0 THEN FALSE
        ELSE IF GammaNegative(denom, na, nb) THEN FALSE
        ELSE TRUE

PrevIdx(len, index) == IF index = 0 THEN len - 1 ELSE index - 1
NextIdx(len, index) == IF index = len - 1 THEN 0 ELSE index + 1

\* for (i, v) in vertices.iter().enumerate() { polygon.push((i as u64, *v)) }
Tag(vs) == [i \in 1..Len(vs) |-> <<i - 1, vs[i]>>]

\* the search for the leftmost (then lowest) point, lines 172-182
RECURSIVE LeftmostFrom(_, _, _)
LeftmostFrom(poly, i, index) ==
    IF i > Len(poly) - 1 THEN index
    ELSE IF \/ PtX(At(poly, i)) < PtX(At(poly, index))
            \/ /\ approx_eq(PtX(At(poly, i)), PtX(At(poly, index)))
               /\ PtY(At(poly, i)) < PtY(At(poly, index))
         THEN LeftmostFrom(poly, i + 1, i)
         ELSE LeftmostFrom(poly, i + 1, index)

\* assert!(!is_ccw(&tri)) at the leftmost point, lines 184-197
WindingAssert(poly) ==
    LET index == LeftmostFrom(poly, 0, 0)
        tri == << At(poly, PrevIdx(Len(poly), index)),
                  At(poly, index),
                  At(poly, NextIdx(Len(poly), index)) >>
    IN  ~is_ccw(tri)

\* body of the scan for one candidate, lines 209-243
IsEar(poly, index) ==
    LET len == Len(poly)
        p == PrevIdx(len, index)
        n == NextIdx(len, index)
        tri == << At(poly, p), At(poly, index), At(poly, n) >>
    IN  /\ ~is_ccw(tri)
        /\ \A j \in (index + 1)..(len - 1) :
              \/ j = p \/ j = n \/ j = index
              \/ ~in_triangle(At(poly, j), At(poly, p), At(poly, index), At(poly, n))

\* the scan, lines 200-244: the first candidate that is an ear, else -1
FindEar(poly) ==
    LET ears == {i \in 0..(Len(poly) - 1) : IsEar(poly, i)}
    IN  IF ears = {} THEN -1 ELSE MinOf(ears)

EarTriangleByPosition(poly, eartip) ==
    << PrevIdx(Len(poly), eartip), eartip, NextIdx(Len(poly), eartip) >>

\* the three pushes, lines 248-260
EarTriangle(poly, eartip) ==
    << At(poly, PrevIdx(Len(poly), eartip))[1],
       At(poly, eartip)[1],
       At(poly, NextIdx(Len(poly), eartip))[1] >>

\* the while loop, lines 199-263
RECURSIVE ClipLoop(_, _)
ClipLoop(poly, tris) ==
    IF ~(Len(poly) >= 3) THEN tris
    ELSE LET eartip == FindEar(poly)
         IN  IF eartip < 0 THEN tris
             ELSE ClipLoop(RemoveAt(poly, eartip), tris \o EarTriangle(poly, eartip))

\* A call either panics or returns its Indices.
Panicked == [ok |-> FALSE, indices |-> <<>>]
Returned(ix) == [ok |-> TRUE, indices |-> ix]

triangulate(poly) ==
    IF ~WindingAssert(poly) THEN Panicked ELSE Returned(ClipLoop(poly, <<>>))

triangulate2d(vs) ==
    IF ~(Len(vs) > MinLen) THEN Panicked ELSE triangulate(Tag(vs))

\* ------------------------------------------- geometry the claims speak of
Cross(o, a, b) == (a[1] - o[1]) * (b[2] - o[2]) - (b[1] - o[1]) * (a[2] - o[2])

Between(a, b, c) == IF a <= b THEN a <= c /\ c <= b ELSE b <= c /\ c <= a

OnSegment(a, b, p) ==
    Cross(a, b, p) = 0 /\ Between(a[1], b[1], p[1]) /\ Between(a[2], b[2], p[2])

SegmentsMeet(a, b, c, d) ==
    \/ /\ Sign(Cross(a, b, c)) * Sign(Cross(a, b, d)) < 0
       /\ Sign(Cross(c, d, a)) * Sign(Cross(c, d, b)) < 0
    \/ OnSegment(a, b, c) \/ OnSegment(a, b, d)
    \/ OnSegment(c, d, a) \/ OnSegment(c, d, b)

Distinct(vs) == \A i, j \in 1..Len(vs) : i # j => vs[i] # vs[j]

\* a simple polygon: distinct vertices, edges that are not neighbours do not
\* meet, neighbouring edges meet in their common vertex only
IsSimple(vs) ==
    LET n == Len(vs)
        nx(i) == (i % n) + 1
    IN  /\ n >= 3
        /\ Distinct(vs)
        /\ \A i \in 1..n : ~OnSegment(vs[i], vs[nx(i)], vs[nx(nx(i))])
                          /\ ~OnSegment(vs[nx(i)], vs[nx(nx(i))], vs[i])
        /\ \A i, j \in 1..n :
              (i < j /\ nx(i) # j /\ nx(j) # i)
                 => ~SegmentsMeet(vs[i], vs[nx(i)], vs[j], vs[nx(j)])

RECURSIVE ShoelaceFrom(_, _)
ShoelaceFrom(vs, i) ==
    IF i > Len(vs) THEN 0
    ELSE LET a == vs[i]
             b == vs[(i % Len(vs)) + 1]
         IN  a[1] * b[2] - b[1] * a[2] + ShoelaceFrom(vs, i + 1)

\* twice the signed area, positive when counter-clockwise (x right, y up)
Area2(vs) == ShoelaceFrom(vs, 1)

IsClockwise(vs) == Area2(vs) < 0

\* twice the summed signed area of the triangles of an index list
RECURSIVE TriArea2From(_, _, _)
TriArea2From(vs, ix, k) ==
    IF k + 2 > Len(ix) THEN 0
    ELSE Cross(At(vs, ix[k]), At(vs, ix[k + 1]), At(vs, ix[k + 2]))
           + TriArea2From(vs, ix, k + 3)

TriArea2(vs, ix) == TriArea2From(vs, ix, 1)

\* ------------------------------------------------------------ the inputs
Grid == (0..MaxX) \X (0..MaxY)

VertexLists ==
    UNION { {vs \in [1..n -> Grid] : Distinct(vs)} : n \in MinLen..MaxN }

NoCall == [op |-> "none"]
NoMesh == [ok |-> FALSE, points |-> <<>>, faces |-> <<>>]
NoChain == [curves |-> <<>>, closed |-> FALSE]
NoResult == [ok |-> FALSE]

\* ------------------------------------- triangulate2d, one loop turn a step
InitTri ==
    /\ vertices \in VertexLists
    /\ polygon = <<>>
    /\ triangles = <<>>
    /\ pc = "call"
    /\ call = NoCall
    /\ mesh = NoMesh
    /\ chain = NoChain
    /\ result = NoResult

\* triangulate2d up to the while loop: both assertions
Enter ==
    /\ pc = "call"
    /\ call = NoCall
    /\ IF Len(vertices) > MinLen /\ WindingAssert(Tag(vertices))
       THEN polygon' = Tag(vertices) /\ pc' = "loop"
       ELSE polygon' = polygon /\ pc' = "panicked"
    /\ UNCHANGED <<vertices, triangles, call, mesh, chain, result>>

\* one turn of the while loop that finds an ear
Clip ==
    /\ pc = "loop"
    /\ Len(polygon) >= 3
    /\ FindEar(polygon) >= 0
    /\ triangles' = triangles \o EarTriangle(polygon, FindEar(polygon))
    /\ polygon' = RemoveAt(polygon, FindEar(polygon))
    /\ UNCHANGED <<vertices, pc, call, mesh, chain, result>>

\* if eartip < 0 { break; }  then  triangles  is returned
Break ==
    /\ pc = "loop"
    /\ Len(polygon) >= 3
    /\ FindEar(polygon) < 0
    /\ pc' = "returned"
    /\ UNCHANGED <<vertices, polygon, triangles, call, mesh, chain, result>>

\* the loop condition fails; triangles is returned
Return ==
    /\ pc = "loop"
    /\ ~(Len(polygon) >= 3)
    /\ pc' = "returned"
    /\ UNCHANGED <<vertices, polygon, triangles, call, mesh, chain, result>>

NextTri == Enter \/ Clip \/ Break \/ Return

SpecTri == InitTri /\ [][NextTri]_vars

\* the call is sequential code: once entered it keeps taking its next step
SpecTriFair == SpecTri /\ WF_vars(NextTri)

\* ---------------------------------------------------- triangulate3d
\* A Pt3 is <<x, y, z>>.  nml_type: which of the six axis directions the
\* normal is closest to, lines 89-108 ("none" is nml_type = 0).
NmlType(normal) ==
    LET nx == normal[1]
        ny == normal[2]
        nz == normal[3]
    IN  IF Abs(nx) >= Abs(ny) /\ Abs(nx) >= Abs(nz)
        THEN (IF nx >= 0 THEN "PX" ELSE "NX")
        ELSE IF Abs(ny) >= Abs(nx) /\ Abs(ny) >= Abs(nz)
        THEN (IF ny >= 0 THEN "PY" ELSE "NY")
        ELSE IF Abs(nz) >= Abs(nx) /\ Abs(nz) >= Abs(ny)
        THEN (IF nz >= 0 THEN "PZ" ELSE "NZ")
        ELSE "none"

\* the match on nml_type, lines 110-148
Project(t, v) ==
    CASE t = "PX" -> << v[2], v[3] >>
      [] t = "NX" -> << -v[2], v[3] >>
      [] t = "PY" -> << -v[1], v[3] >>
      [] t = "NY" -> << v[1], v[3] >>
      [] t = "PZ" -> << v[1], v[2] >>
      [] t = "NZ" -> << -v[1], v[2] >>

\* nml_type = 0 leaves the polygon empty and polygon[0] panics
triangulate3d(vs, normal) ==
    IF ~(Len(vs) > MinLen) \/ NmlType(normal) = "none" THEN Panicked
    ELSE triangulate([i \in 1..Len(vs) |-> <<i - 1, Project(NmlType(normal), vs[i])>>])

\* triangulate2d_rev and triangulate3d_rev are exported by lib.rs:65 but
\* their bodies are not in triangulate.rs: each returns the triangles of its
\* namesake with the order of every triple reversed.
ReverseTriples(ix) ==
    [i \in 1..Len(ix) |-> ix[3 * ((i - 1) \div 3) + (3 - ((i - 1) % 3))]]

triangulate2d_rev(vs) ==
    LET r == triangulate2d(vs)
    IN  IF r.ok THEN Returned(ReverseTriples(r.indices)) ELSE Panicked

triangulate3d_rev(vs, normal) ==
    LET r == triangulate3d(vs, normal)
    IN  IF r.ok THEN Returned(ReverseTriples(r.indices)) ELSE Panicked

\* ------------------------------------------------------------- dim3.rs
\* for i in (0..indices.len()).step_by(3) { faces.push([i, i+1, i+2] + offset) }
Triples(ix, offset) ==
    [k \in 1..(Len(ix) \div 3) |->
        << ix[3 * k - 2] + offset, ix[3 * k - 1] + offset, ix[3 * k] + offset >>]

WallQuadNoWrap(a, b, p, len) ==
    << a + p, a + (p + 1), b + (p + 1), b + p >>

\* the quad between the ring starting at vertex a and the ring starting at
\* vertex b, for profile edge p: [p0, p1, p2, p3]
WallQuad(a, b, p, len) ==
    << a + p, a + ((p + 1) % len), b + ((p + 1) % len), b + p >>

Strip(a, b, len) == [i \in 1..len |-> WallQuad(a, b, i - 1, len)]

MeshPanic == [ok |-> FALSE, points |-> <<>>, faces |-> <<>>]
Polyhedron(points, faces) == [ok |-> TRUE, points |-> points, faces |-> faces]

as_pt3(p, z) == << p[1], p[2], z >>

linear_extrude_top_unshifted(points, height) ==
    LET len == Len(points)
        bottom == triangulate2d_rev(points)
        top == triangulate2d(points)
        verts == [i \in 1..(2 * len) |->
                    IF i <= len THEN as_pt3(points[i], 0)
                    ELSE as_pt3(points[i - len], height)]
    IN  IF ~bottom.ok \/ ~top.ok THEN MeshPanic
        ELSE Polyhedron(verts,
                 Triples(bottom.indices, 0)
                   \o Triples(top.indices, 0)
                   \o Strip(0, len, len))

linear_extrude_bottom_unreversed(points, height) ==
    LET len == Len(points)
        bottom == triangulate2d(points)
        top == triangulate2d(points)
        verts == [i \in 1..(2 * len) |->
                    IF i <= len THEN as_pt3(points[i], 0)
                    ELSE as_pt3(points[i - len], height)]
    IN  IF ~bottom.ok \/ ~top.ok THEN MeshPanic
        ELSE Polyhedron(verts,
                 Triples(bottom.indices, 0)
                   \o Triples(top.indices, len)
                   \o Strip(0, len, len))

linear_extrude(points, height) ==
    LET len == Len(points)
        bottom == triangulate2d_rev(points)
        top == triangulate2d(points)
        verts == [i \in 1..(2 * len) |->
                    IF i <= len THEN as_pt3(points[i], 0)
                    ELSE as_pt3(points[i - len], height)]
    IN  IF ~bottom.ok \/ ~top.ok THEN MeshPanic
        ELSE Polyhedron(verts,
                 Triples(bottom.indices, 0)
                   \o Triples(top.indices, len)
                   \o Strip(0, len, len))

\* dsin / dcos in thousandths, at the multiples of 15 degrees.  At the
\* quarter turns the f64 results carry a residue of at most 2.5e-16 where
\* the table has 0 (dcos(90.0) = 6.1e-17, dsin(180.0) = 1.2e-16); the other
\* coordinate is then +-1, so no comparison made by triangulate3d reads the
\* residue.
SinTable ==
    << 0, 259, 500, 707, 866, 966, 1000, 966, 866, 707, 500, 259,
       0, -259, -500, -707, -866, -966, -1000, -966, -866, -707, -500, -259 >>
dsin(degrees) == SinTable[((degrees % 360) \div 15) + 1]
dcos(degrees) == dsin(degrees + 90)

\* Pt3::new(0.0, -1.0, 0.0).rotated_z(degrees + 180.0), in thousandths: only
\* the signs and the relative sizes of its coordinates are read
EndCapNormal(degrees) ==
    LET s == dsin(degrees + 180)
        c == dcos(degrees + 180)
    IN  << 0 * c - (-1) * s, 0 * s + (-1) * c, 0 >>

\* Pt3::new(p.x * c, p.x * s, p.z) for c, s the cosine and sine of
\* a * segment = (degrees * segment / segments) degrees, kept as the radius,
\* the angle (a fraction of degrees) and the height it is computed from.
\* Ring 0 is profile.clone(): the same with angle 0.
RingPoint(p, segment, degrees, segments) ==
    [x |-> p[1], turn |-> << degrees * segment, segments >>, z |-> p[3]]

\* the quads pushed by the loop over segment in 1..segments, lines 128-141
Strips(rings, len) ==
    [k \in 1..(rings * len) |->
        WallQuad(((k - 1) \div len) * len, ((k - 1) \div len + 1) * len,
                 (k - 1) % len, len)]

rotate_extrude(profile2, degrees, segments) ==
    IF ~(degrees >= 0 /\ degrees <= 360) \/ ~(segments >= 3) THEN MeshPanic
    ELSE
    LET not_closed == degrees # 360
        profile == [i \in 1..Len(profile2) |-> << profile2[i][1], 0, profile2[i][2] >>]
        profile_len == Len(profile)
        rings == IF not_closed THEN segments + 1 ELSE segments
        points == [k \in 1..(rings * profile_len) |->
                     RingPoint(profile[((k - 1) % profile_len) + 1],
                               (k - 1) \div profile_len, degrees, segments)]
        start == triangulate3d(profile, << 0, -1, 0 >>)
        end == triangulate3d_rev(profile, EndCapNormal(degrees))
    IN  IF not_closed
        THEN IF ~start.ok \/ ~end.ok THEN MeshPanic
             ELSE Polyhedron(points,
                      Triples(start.indices, 0)
                        \o Strips(segments - 1, profile_len)
                        \o Strip((segments - 1) * profile_len,
                                 segments * profile_len, profile_len)
                        \o Triples(end.indices, segments * profile_len))
        ELSE Polyhedron(points,
                 Strips(segments - 1, profile_len)
                   \o Strip((segments - 1) * profile_len, 0, profile_len))

\* ------------------------------------- vectors kept in thousandths
\* coordinates rounded to the nearest thousandth of a unit
RoundDiv(a, b) == (2 * a + b) \div (2 * b)

VAdd(a, b) == [i \in DOMAIN a |-> a[i] + b[i]]
VSub(a, b) == [i \in DOMAIN a |-> a[i] - b[i]]
VScale(a, k) == [i \in DOMAIN a |-> RoundDiv(a[i] * k, 1000)]

\* the integer square root, by bisection: lo * lo <= n < hi * hi
RECURSIVE SqrtBetween(_, _, _)
SqrtBetween(n, lo, hi) ==
    IF hi - lo <= 1 THEN lo
    ELSE LET mid == (lo + hi) \div 2
         IN  IF mid * mid <= n THEN SqrtBetween(n, mid, hi)
                               ELSE SqrtBetween(n, lo, mid)

\* Pt2::len / Pt3::len
VLen(a) ==
    LET len2 == IF Len(a) = 2 THEN a[1] * a[1] + a[2] * a[2]
                ELSE a[1] * a[1] + a[2] * a[2] + a[3] * a[3]
    IN  SqrtBetween(len2, 0, 46341)

\* Pt2::normalized / Pt3::normalized of a nonzero vector: a unit vector
VNormalized(a) == [i \in DOMAIN a |-> RoundDiv(a[i] * 1000, VLen(a))]

\* ------------------------------------------------------------ Pt3 / Mt4
Add3(a, b) == << a[1] + b[1], a[2] + b[2], a[3] + b[3] >>
Sub3(a, b) == << a[1] - b[1], a[2] - b[2], a[3] - b[3] >>
Dot3(a, b) == a[1] * b[1] + a[2] * b[2] + a[3] * b[3]
\* Pt4::dot: the w components are not part of the sum
Dot4(a, b) == a[1] * b[1] + a[2] * b[2] + a[3] * b[3]
Cross3(a, b) ==
    << a[2] * b[3] - a[3] * b[2], a[3] * b[1] - a[1] * b[3], a[1] * b[2] - a[2] * b[1] >>

AxisAligned(v) == Cardinality({i \in 1..3 : v[i] # 0}) = 1

\* Pt3::normalized for a vector along one axis, the only vectors the paths
\* drawn below hand to it: its length is the absolute value of its one
\* nonzero coordinate, and the quotient is exact.
normalized(v) == << Sign(v[1]), Sign(v[2]), Sign(v[3]) >>

as_pt4(p, w) == << p[1], p[2], p[3], w >>
pt4_as_pt3(p) == << p[1], p[2], p[3] >>

\* Pt3::rotated_z at a multiple of 90 degrees (residue dropped, see SinTable)
rotated_z(p, degrees) ==
    LET s == dsin(degrees) \div 1000
        c == dcos(degrees) \div 1000
    IN  << p[1] * c - p[2] * s, p[1] * s + p[2] * c, p[3] >>

Mt4(x, y, z, w) == << x, y, z, w >>

transposed(m) ==
    Mt4(<< m[1][1], m[2][1], m[3][1], m[4][1] >>,
        << m[1][2], m[2][2], m[3][2], m[4][2] >>,
        << m[1][3], m[2][3], m[3][3], m[4][3] >>,
        << m[1][4], m[2][4], m[3][4], m[4][4] >>)

identity ==
    Mt4(<< 1, 0, 0, 0 >>, << 0, 1, 0, 0 >>, << 0, 0, 1, 0 >>, << 0, 0, 0, 1 >>)

\* at a multiple of 90 degrees (residue dropped, see SinTable)
rot_x_matrix(degrees) ==
    LET c == dcos(degrees) \div 1000
        s == dsin(degrees) \div 1000
    IN  transposed(Mt4(<< 1, 0, 0, 0 >>, << 0, c, -s, 0 >>,
                       << 0, s, c, 0 >>, << 0, 0, 0, 1 >>))

\* f64 rounding in up.cross(f), f = (center - eye).normalized(), when
\* center - eye = k * up: the exact value of every coordinate is 0, the f64
\* value is  a * fl(k b / l) - b * fl(k a / l)  for two coordinates a, b of
\* up.  CrossError is that value in units of 2^-54 for the absolute
\* coordinates a, b, the third one c, and |k|, as f64 arithmetic gives it for
\* all coordinates in -4..4 and |k| <= 4: zero except for the coordinate
\* triples {2, 3, 3} and {0, 3, 4}.
CrossError(a, b, c, k) ==
    IF {a, b} = {2, 3} /\ c = 3 /\ k \in {1, 2, 4} THEN (IF a = 3 THEN -4 ELSE 4)
    ELSE IF {a, b} = {3, 4} /\ c = 0 THEN (IF a = 3 THEN 8 ELSE -8)
    ELSE 0

\* up.cross(f) in f64 for d = center - eye = k * up, in units of 2^-54
ParallelCross(up, d) ==
    LET i == CHOOSE j \in 1..3 : up[j] # 0
        k == d[i] \div up[i]
        e(p, q, r) == Sign(k) * Sign(up[p]) * Sign(up[q])
                        * CrossError(Abs(up[p]), Abs(up[q]), Abs(up[r]), Abs(k))
    IN  << e(2, 3, 1), e(3, 1, 2), e(1, 2, 3) >>

Scaled3(v) == << v[1] * 1000, v[2] * 1000, v[3] * 1000 >>

\* the matrix returned past the parallel check for s0 # 0, d not along an
\* axis: its entries are irrational and given in thousandths
FrameMilli(eye, d, s0) ==
    LET f == VNormalized(Scaled3(d))
        s == VNormalized(Scaled3(s0))
        c == Cross3(f, s)
        u == << RoundDiv(c[1], 1000), RoundDiv(c[2], 1000), RoundDiv(c[3], 1000) >>
    IN  Mt4(<< s[1], s[2], s[3], -Dot3(s, eye) >>,
            << u[1], u[2], u[3], -Dot3(u, eye) >>,
            << f[1], f[2], f[3], -Dot3(f, eye) >>,
            << 0, 0, 0, 1000 >>)

\* Two kinds of arguments are modelled: center - eye along an axis, where
\* every f64 operation is exact, and center - eye a multiple of up, where
\* the cross product is pure rounding error.
look_at_matrix_lh(eye, center, up) ==
    IF AxisAligned(Sub3(center, eye))
    THEN LET f == normalized(Sub3(center, eye))
             s0 == Cross3(up, f)
         IN  IF s0 = << 0, 0, 0 >>
             THEN IF Dot3(up, f) < 0 THEN rot_x_matrix(180) ELSE identity
             ELSE LET s == normalized(s0)
                      u == Cross3(f, s)
                  IN  Mt4(<< s[1], s[2], s[3], -Dot3(s, eye) >>,
                          << u[1], u[2], u[3], -Dot3(u, eye) >>,
                          << f[1], f[2], f[3], -Dot3(f, eye) >>,
                          << 0, 0, 0, 1 >>)
    ELSE LET d == Sub3(center, eye)
             s0 == ParallelCross(up, d)
         IN  IF s0 = << 0, 0, 0 >>
             THEN IF Dot3(up, d) < 0 THEN rot_x_matrix(180) ELSE identity
             ELSE FrameMilli(eye, d, s0)

\* impl Mul<Pt4> for Mt4
MulPt4(m, rhs) ==
    LET t == transposed(m)
    IN  << Dot4(t[1], rhs), Dot4(t[2], rhs), Dot4(t[3], rhs), Dot4(t[4], rhs) >>

\* ---------------------------------------------------- Polyhedron::sweep
\* twist_degrees / steps is exact for the twists drawn below
sweep(profile2, path, twist_degrees, closed) ==
    LET profile == [i \in 1..Len(profile2) |-> as_pt3(profile2[i], 0)]
        profile_len == Len(profile)
        path_len == Len(path)
        up == << 0, 0, 1 >>
        twist_angle == IF closed THEN twist_degrees \div path_len
                       ELSE twist_degrees \div (path_len - 1)
        m0 == IF closed
              THEN look_at_matrix_lh(At(path, path_len - 1), At(path, 1), up)
              ELSE look_at_matrix_lh(At(path, 0), At(path, 1), up)
        mid(path_index) ==
              look_at_matrix_lh(At(path, path_index - 1), At(path, path_index + 1), up)
        mlast == IF closed
                 THEN look_at_matrix_lh(At(path, path_len - 2), At(path, 0), up)
                 ELSE look_at_matrix_lh(At(path, path_len - 2), At(path, path_len - 1), up)
        ring0 == [i \in 1..profile_len |->
                    Add3(pt4_as_pt3(MulPt4(m0, as_pt4(profile[i], 1))), At(path, 0))]
        ringAt(path_index, m) ==
              [i \in 1..profile_len |->
                  Add3(pt4_as_pt3(MulPt4(m,
                          as_pt4(rotated_z(profile[i], twist_angle * path_index), 0))),
                       At(path, path_index))]
        interior == [k \in 1..((path_len - 2) * profile_len) |->
                       ringAt((k - 1) \div profile_len + 1,
                              mid((k - 1) \div profile_len + 1))[((k - 1) % profile_len) + 1]]
        last_points == ringAt(path_len - 1, mlast)
        points == ring0 \o interior \o last_points
        start == triangulate3d_rev(profile, Sub3(At(path, 1), At(path, 0)))
        end == triangulate3d(last_points,
                             Sub3(At(path, path_len - 1), At(path, path_len - 2)))
        walls == Strips(path_len - 1, profile_len)
    IN  IF ~closed
        THEN IF ~start.ok \/ ~end.ok THEN MeshPanic
             ELSE Polyhedron(points,
                      Triples(start.indices, 0)
                        \o walls
                        \o Triples(end.indices, Len(points) - profile_len))
        ELSE Polyhedron(points,
                 walls \o Strip((path_len - 1) * profile_len, 0, profile_len))

\* --------------------------------------------- the builders, one call
\* 2D profiles are given in clockwise order (lib.rs:27-28)
Profiles ==
    {vs \in VertexLists : Len(vs) <= MaxProfile /\ IsSimple(vs) /\ IsClockwise(vs)}

Heights == 1..MaxHeight

\* sweep angles: in steps of 30 degrees, and one beyond each end of the
\* asserted range
Degrees == {-30, 0, 30, 60, 90, 120, 180, 240, 270, 330, 360, 390}

SegmentCounts == 2..MaxSegments

Twists == {0}

\* every look-at frame sweep builds, as <<eye, center>>
LookAtPairs(path, closed) ==
    LET path_len == Len(path)
    IN  {IF closed THEN << At(path, path_len - 1), At(path, 1) >>
                   ELSE << At(path, 0), At(path, 1) >>}
        \cup {<< At(path, i - 1), At(path, i + 1) >> : i \in 1..(path_len - 2)}
        \cup {IF closed THEN << At(path, path_len - 2), At(path, 0) >>
                        ELSE << At(path, path_len - 2), At(path, path_len - 1) >>}

\* Paths whose frames are exact in f64: every frame looks along an axis.
\* Such a path runs along one axis through the origin.
Axes == {<< 1, 0, 0 >>, << 0, 1, 0 >>, << 0, 0, 1 >>}

AxisPaths ==
    UNION { { [i \in 1..n |-> << ts[i] * e[1], ts[i] * e[2], ts[i] * e[3] >>] :
                ts \in [1..n -> 0..MaxT], e \in Axes } : n \in 2..MaxPath }

FramesExact(path, closed) ==
    \A pr \in LookAtPairs(path, closed) : AxisAligned(Sub3(pr[2], pr[1]))

InitMesh ==
    /\ vertices \in Profiles
    /\ polygon = <<>>
    /\ triangles = <<>>
    /\ pc = "call"
    /\ call = NoCall
    /\ mesh = NoMesh
    /\ chain = NoChain
    /\ result = NoResult

Built(c, m) ==
    /\ call' = c
    /\ mesh' = m
    /\ pc' = IF m.ok THEN "returned" ELSE "panicked"
    /\ UNCHANGED <<vertices, polygon, triangles, chain, result>>

LinearExtrude ==
    /\ pc = "call"
    /\ \E height \in Heights :
          Built([op |-> "linear_extrude", height |-> height],
                linear_extrude(vertices, height))

RotateExtrude ==
    /\ pc = "call"
    /\ \E degrees \in Degrees, segments \in SegmentCounts :
          Built([op |-> "rotate_extrude", degrees |-> degrees, segments |-> segments],
                rotate_extrude(vertices, degrees, segments))

Sweep ==
    /\ pc = "call"
    /\ \E path \in AxisPaths, twist_degrees \in Twists, closed \in BOOLEAN :
          /\ FramesExact(path, closed)
          /\ Built([op |-> "sweep", path |-> path,
                    twist_degrees |-> twist_degrees, closed |-> closed],
                   sweep(vertices, path, twist_degrees, closed))

NextMesh == LinearExtrude \/ RotateExtrude \/ Sweep

SpecMesh == InitMesh /\ [][NextMesh]_vars

\* ------------------------------------------------------ claims C1 .. C4
SimpleClockwise(vs) == Len(vs) >= 4 /\ IsSimple(vs) /\ IsClockwise(vs)

IsConcave(vs) ==
    \E i \in 1..Len(vs) :
        Cross(vs[((i + Len(vs) - 2) % Len(vs)) + 1], vs[i], vs[(i % Len(vs)) + 1]) > 0

UnitSquare == << <<0, 0>>, <<1, 0>>, <<1, 1>>, <<0, 1>> >>
UnitSquareClockwise == << <<0, 0>>, <<0, 1>>, <<1, 1>>, <<1, 0>> >>

\* C3 as stated: triangulate2d on the unit square in the order
\* (0,0),(1,0),(1,1),(0,1) returns normally, with 2 triangles of total area 1.
C3_AsStated ==
    vertices = UnitSquare =>
        /\ pc # "panicked"
        /\ pc = "returned" =>
              Len(triangles) = 6 /\ Abs(TriArea2(vertices, triangles)) = 2

\* C3 amended: in the order (0,0),(1,0),(1,1),(0,1) the square is
\* counter-clockwise for is_ccw and the call panics at the winding assertion
\* with no triangle; in the order (0,0),(0,1),(1,1),(1,0) it returns normally
\* with 2 triangles (6 indices) whose areas sum to 1.
C3_UnitSquare ==
    /\ (vertices = UnitSquare /\ pc # "call") =>
          pc = "panicked" /\ triangles = <<>>
    /\ vertices = UnitSquareClockwise =>
          /\ pc # "panicked"
          /\ pc = "returned" =>
                Len(triangles) = 6 /\ TriArea2(vertices, triangles) = -2

C3_Witness == vertices = UnitSquare /\ pc = "panicked"

\* C4: a call of triangulate2d that finds no ear with 3 or more vertices in
\* the ring yields no triangle list: a returned list never holds fewer than
\* N-2 triangles.
C4_NoPartialList ==
    pc = "returned" => Len(triangles) >= 3 * (Len(vertices) - 2)

\* ----------------------------------------------------- claims C5 .. C10
Quads(faces) == {k \in DOMAIN faces : Len(faces[k]) = 4}

\* the triangles all of whose indices lie in lo .. hi-1
TrianglesIn(faces, lo, hi) ==
    {k \in DOMAIN faces :
        Len(faces[k]) = 3 /\ \A i \in 1..3 : lo <= faces[k][i] /\ faces[k][i] < hi}

HasFace(faces, f) == \E k \in DOMAIN faces : faces[k] = f

C6_RotateExtrudeCounts ==
    (/\ call.op = "rotate_extrude"
     /\ Len(vertices) >= 4
     /\ 0 < call.degrees /\ call.degrees <= 360
     /\ call.segments >= 3) =>
        LET P == Len(vertices)
            S == call.segments
        IN  /\ mesh.ok
            /\ call.degrees = 360 =>
                  /\ Len(mesh.points) = S * P
                  /\ Len(mesh.faces) = S * P
                  /\ Quads(mesh.faces) = DOMAIN mesh.faces
                  /\ \A q \in 0..(P - 1) :
                        HasFace(mesh.faces,
                                << (S - 1) * P + q, (S - 1) * P + ((q + 1) % P),
                                   (q + 1) % P, q >>)
            /\ call.degrees < 360 =>
                  /\ Len(mesh.points) = (S + 1) * P
                  /\ Cardinality(Quads(mesh.faces)) = S * P
                  /\ Cardinality(TrianglesIn(mesh.faces, 0, P)) = P - 2
                  /\ Cardinality(TrianglesIn(mesh.faces, S * P, (S + 1) * P)) = P - 2
                  /\ Len(mesh.faces) = S * P + 2 * (P - 2)

\* C7: sweep of a P-point profile (P >= 4) along an n-point path returns
\* n*P vertices; when open, (n-1)*P quads and two caps of P-2 triangles, over
\* ring 0 and over ring n-1; when closed, n*P quads and no triangle, the last
\* strip joining ring n-1 to ring 0.
C7_SweepCounts ==
    (call.op = "sweep" /\ Len(vertices) >= 4) =>
        LET P == Len(vertices)
            n == Len(call.path)
        IN  /\ mesh.ok
            /\ Len(mesh.points) = n * P
            /\ ~call.closed =>
                  /\ Cardinality(Quads(mesh.faces)) = (n - 1) * P
                  /\ Cardinality(TrianglesIn(mesh.faces, 0, P)) = P - 2
                  /\ Cardinality(TrianglesIn(mesh.faces, (n - 1) * P, n * P)) = P - 2
                  /\ Len(mesh.faces) = (n - 1) * P + 2 * (P - 2)
            /\ call.closed =>
                  /\ Len(mesh.faces) = n * P
                  /\ Quads(mesh.faces) = DOMAIN mesh.faces
                  /\ \A q \in 0..(P - 1) :
                        HasFace(mesh.faces,
                                << (n - 1) * P + q, (n - 1) * P + ((q + 1) % P),
                                   (q + 1) % P, q >>)

\* C8: in every mesh a builder returns, every face has 3 or 4 indices and
\* every index is below the number of vertices.
C8_IndicesInRange ==
    mesh.ok =>
        \A k \in DOMAIN mesh.faces :
            /\ Len(mesh.faces[k]) \in {3, 4}
            /\ \A i \in DOMAIN mesh.faces[k] :
                  0 <= mesh.faces[k][i] /\ mesh.faces[k][i] < Len(mesh.points)

C8_Witness ==
    /\ call.op = "sweep"
    /\ call.closed
    /\ mesh.ok
    /\ Len(mesh.points) = 12
    /\ \E k \in DOMAIN mesh.faces : mesh.faces[k][2] = Len(mesh.points) - 1

\* the directed edges of the faces, as <<face, position>>
EdgeSlots(faces) ==
    {s \in (DOMAIN faces) \X (1..4) : s[2] <= Len(faces[s[1]])}

EdgeAt(faces, s) ==
    << faces[s[1]][s[2]], faces[s[1]][(s[2] % Len(faces[s[1]])) + 1] >>

Occurrences(faces, a, b) ==
    {s \in EdgeSlots(faces) : EdgeAt(faces, s) = << a, b >>}

\* every directed edge of a face occurs in exactly one face, and its
\* reverse in exactly one other face
ClosedConsistent(faces) ==
    \A s \in EdgeSlots(faces) :
        LET e == EdgeAt(faces, s)
        IN  /\ Occurrences(faces, e[1], e[2]) = {s}
            /\ \E r \in EdgeSlots(faces) :
                  /\ r[1] # s[1]
                  /\ Occurrences(faces, e[2], e[1]) = {r}

C10_RotateExtrudeWinding ==
    (call.op = "rotate_extrude" /\ mesh.ok) => ClosedConsistent(mesh.faces)

\* ---------------------------------------------------- claims C11 .. C20
\* C11: linear_extrude on a clockwise profile of exactly 3 points returns
\* the triangular prism: 6 vertices, 2 cap triangles and 3 wall quads.
C11_TrianglePrism ==
    (call.op = "linear_extrude" /\ Len(vertices) = 3) =>
        /\ mesh.ok
        /\ Len(mesh.points) = 6
        /\ Len(mesh.faces) = 5
        /\ Cardinality(Quads(mesh.faces)) = 3

\* rotate_extrude called on any list of distinct grid points, simple or not
AnyProfiles == {vs \in VertexLists : Len(vs) <= MaxProfile}

InitAny ==
    /\ vertices \in AnyProfiles
    /\ polygon = <<>>
    /\ triangles = <<>>
    /\ pc = "call"
    /\ call = NoCall
    /\ mesh = NoMesh
    /\ chain = NoChain
    /\ result = NoResult

SpecAny == InitAny /\ [][RotateExtrude]_vars

\* C12: rotate_extrude returns no mesh when the sweep angle is outside
\* (0, 360], that is for degrees <= 0 and for degrees > 360.
C12_AngleRange ==
    (call.op = "rotate_extrude" /\ ~(call.degrees > 0 /\ call.degrees <= 360)) =>
        ~mesh.ok

\* one turn of the while loop: clips one vertex and stays in the loop, or
\* leaves the loop with the ring as it was
LoopTurn ==
    pc = "loop" =>
        \/ /\ pc' = "loop"
           /\ Len(polygon') = Len(polygon) - 1
           /\ Len(triangles') = Len(triangles) + 3
        \/ /\ pc' = "returned"
           /\ polygon' = polygon
           /\ triangles' = triangles

\* the number of loop turns that clipped so far is at most N-2
TurnsBounded ==
    pc \in {"loop", "returned"} =>
        /\ Len(triangles) = 3 * (Len(vertices) - Len(polygon))
        /\ Len(vertices) - Len(polygon) <= Len(vertices) - 2

\* C13: on every input, simple or not, that passes the winding assertion the
\* triangulator's loop terminates: each turn removes exactly one vertex from
\* the ring or ends the loop, at most N-2 turns clip, and the call reaches
\* its return.  (triangulate3d runs the same loop on the projected list,
\* which is a mirror image or a copy of a list drawn here.)
C13_Terminates ==
    /\ [][LoopTurn]_vars
    /\ []TurnsBounded
    /\ <>(pc \in {"returned", "panicked"})

\* a non-simple list that passed the assertion, was clipped at least once
\* and left the loop with no ear in a ring of 3 or more
C13_Witness ==
    /\ pc = "returned"
    /\ Len(vertices) >= 4
    /\ ~IsSimple(vertices)
    /\ Len(triangles) >= 3
    /\ Len(polygon) >= 3

\* -------------------------------------------------------------- dim2.rs
\* A Pt2 of dim2.rs is <<x, y>> in thousandths of a unit, rounded to the
\* nearest thousandth; lengths are in thousandths as well.  The claims about
\* these points read their number, their order and the sign of an area that
\* is far from zero.
\* Pt2::rotated, degrees a multiple of 15
rotated(p, degrees) ==
    LET c == dcos(degrees)
        s == dsin(degrees)
    IN  << RoundDiv(p[1] * c - p[2] * s, 1000), RoundDiv(p[1] * s + p[2] * c, 1000) >>

translate(pts, d) == [i \in DOMAIN pts |-> VAdd(pts[i], d)]

Raised == [ok |-> FALSE]
Pts(pts) == [ok |-> TRUE, pts |-> pts]

arc_with_closing_point(start, degrees, segments) ==
    IF ~(degrees <= 360) THEN Raised
    ELSE LET n_pts == segments + 1
         IN  Pts([k \in 1..n_pts |->
                     rotated(start, ((k - 1) * (-degrees)) \div segments)])

\* a = i as f64 * -degrees / segments as f64, for the angles where the
\* quotient is a whole multiple of 15
arc(start, degrees, segments) ==
    IF ~(degrees <= 360) THEN Raised
    ELSE LET n_pts == IF degrees = 360 THEN segments ELSE segments + 1
         IN  Pts([k \in 1..n_pts |->
                     rotated(start, ((k - 1) * (-degrees)) \div segments)])

circle(radius, segments) == arc(<< radius, 0 >>, 360, segments)

inscribed_polygon(n_sides, radius) == circle(radius, n_sides)

circumscribed_polygon(n_sides, radius) ==
    inscribed_polygon(n_sides, RoundDiv(radius * 1000, dcos(180 \div n_sides)))

rounded_rect(width, height, radius, segments, center) ==
    LET tr == translate(arc(<< 0, radius >>, 90, segments).pts,
                        << width - radius, height - radius >>)
        br == translate(arc(<< radius, 0 >>, 90, segments).pts,
                        << width - radius, radius >>)
        bl == translate(arc(<< 0, -radius >>, 90, segments).pts,
                        << radius, radius >>)
        tl == translate(arc(<< -radius, 0 >>, 90, segments).pts,
                        << radius, height - radius >>)
        all == tr \o br \o bl \o tl
    IN  Pts(IF center THEN translate(all, << -(width \div 2), -(height \div 2) >>)
            ELSE all)

chamfer(size, oversize) ==
    Pts(<< << 0, size + oversize >>,
           << oversize, size + oversize >>,
           << oversize, size >>,
           << size, oversize >>,
           << size + oversize, oversize >>,
           << oversize + size, 0 >>,
           << 0, 0 >> >>)

\* angle * i = -360 i / n_points and angle * (i + 0.5) = -180 (2 i + 1) / n_points
star(n_points, inner_radius, outer_radius) ==
    Pts([k \in 1..(2 * n_points) |->
           LET i == (k - 1) \div 2
               a == IF k % 2 = 1 THEN (-360 * i) \div n_points
                    ELSE (-180 * (2 * i + 1)) \div n_points
               r == IF k % 2 = 1 THEN inner_radius ELSE outer_radius
           IN  << RoundDiv(dcos(a) * r, 1000), RoundDiv(dsin(a) * r, 1000) >>])

\* cubic_bezier of dim2.rs / dim3.rs: t = i / segments, and the Bernstein
\* sum over the common denominator segments^3
cubic_bezier(start, control1, control2, end, segments) ==
    [k \in 1..(segments + 1) |->
        LET i == k - 1
            u == segments - i
        IN  [d \in DOMAIN start |->
                RoundDiv(start[d] * u * u * u
                           + control1[d] * 3 * i * u * u
                           + control2[d] * 3 * i * i * u
                           + end[d] * i * i * i,
                         segments * segments * segments)]]

\* CubicBezierChain2D and CubicBezierChain3D: the same code on Pt2 / Pt3
new(start, control1, control2, end, segments) ==
    [curves |-> << [start |-> start, control1 |-> control1,
                    control2 |-> control2, end |-> end, segments |-> segments] >>,
     closed |-> FALSE]

\* the point  e + (e - c2).normalized() * length
Handle(e, c2, length) == VAdd(e, VScale(VNormalized(VSub(e, c2)), length))

add_handle_toward(ch, control1_length, control2, end, segments) ==
    LET chain_end == ch.curves[Len(ch.curves)]
    IN  [ch EXCEPT !.curves = Append(@,
            [start |-> chain_end.end,
             control1 |-> Handle(chain_end.end, chain_end.control2, -control1_length),
             control2 |-> control2, end |-> end, segments |-> segments])]

add(ch, control1_length, control2, end, segments) ==
    LET chain_end == ch.curves[Len(ch.curves)]
    IN  [ch EXCEPT !.curves = Append(@,
            [start |-> chain_end.end,
             control1 |-> Handle(chain_end.end, chain_end.control2, control1_length),
             control2 |-> control2, end |-> end, segments |-> segments])]

close(ch, control1_length, control2, start_control1_len, segments) ==
    LET flagged == [ch EXCEPT !.closed = TRUE]
        added == add(flagged, control1_length, control2, flagged.curves[1].start, segments)
        chain_end == added.curves[Len(added.curves)]
    IN  [added EXCEPT !.curves[1].control1 =
            Handle(chain_end.end, chain_end.control2, start_control1_len)]

Pop(pts) == IF Len(pts) = 0 THEN pts ELSE SubSeq(pts, 1, Len(pts) - 1)

RECURSIVE GenFrom(_, _, _)
GenFrom(curves, i, pts) ==
    IF i > Len(curves) THEN pts
    ELSE GenFrom(curves, i + 1,
             Pop(pts) \o cubic_bezier(curves[i].start, curves[i].control1,
                                      curves[i].control2, curves[i].end,
                                      curves[i].segments))

gen_points(ch) ==
    LET pts == GenFrom(ch.curves, 1, << << 0, 0 >> >>)
    IN  IF ch.closed THEN Pop(pts) ELSE pts

\* knots[j] of bezier_star, j from 0: angle * i = 360 i / n_points for the
\* outer knots, angle * (i + 0.5) = 180 (2 i + 1) / n_points for the inner
Knot(j, n_points, inner_radius, outer_radius) ==
    LET i == j \div 2
        a == IF j % 2 = 0 THEN (360 * i) \div n_points
             ELSE (180 * (2 * i + 1)) \div n_points
        r == IF j % 2 = 0 THEN outer_radius ELSE inner_radius
    IN  << RoundDiv(dcos(a) * r, 1000), RoundDiv(dsin(a) * r, 1000) >>

RECURSIVE AddKnots(_, _, _, _, _, _, _)
AddKnots(ch, i, knots, controls, inner_handle_length, outer_handle_length, segments) ==
    IF i > Len(knots) - 2 THEN ch
    ELSE AddKnots(add(ch,
                      IF i % 2 = 0 THEN outer_handle_length ELSE inner_handle_length,
                      At(controls, i), At(knots, i + 1), segments),
                  i + 1, knots, controls, inner_handle_length, outer_handle_length,
                  segments)

bezier_star(n_points, inner_radius, inner_handle_length, outer_radius, outer_handle_length, segments) ==
    LET n_knots == 2 * n_points
        knots == [k \in 1..n_knots |-> Knot(k - 1, n_points, inner_radius, outer_radius)]
        controls ==
            [k \in 1..n_knots |->
                LET i == k - 1
                IN  VSub(At(knots, (i + 1) % n_knots),
                         VScale(VNormalized(VSub(At(knots, (i + 2) % n_knots),
                                                 At(knots, i))),
                                IF i % 2 = 0 THEN inner_handle_length
                                ELSE outer_handle_length))]
        first == new(At(knots, 0), At(controls, 0), At(controls, 0), At(knots, 1), segments)
        open == AddKnots(first, 1, knots, controls, inner_handle_length,
                         outer_handle_length, segments)
        closed == close(open, inner_handle_length, At(controls, n_knots - 1),
                        outer_handle_length, segments)
    IN  Pts(gen_points(closed))

\* ------------------------------------- the generators of dim2.rs, one call
\* arguments are whole units (radii, sizes) or thousandths (handle lengths,
\* corner radii); angles are those whose every step is on the sine table
OnTable(degrees, n) == degrees % (15 * n) = 0

ArcStarts == {<< 1000, 0 >>, << 0, 1000 >>, << -2000, 0 >>, << 1000, 1000 >>}
ArcDegrees == {-90, 90, 180, 270, 360, 390}
CircleSegments == {n \in 1..MaxArc : OnTable(360, n)}
PolygonSides == {n \in 3..MaxArc : OnTable(180, n)}
CornerSegments == {n \in 1..MaxArc : OnTable(90, n)}
CornerRadii == {500, 1000}
StarPoints == {n \in 2..MaxArc : OnTable(180, n)}
BezierStarPoints == {n \in StarPoints : n <= 6}
HandleLengths == {250, 500}
CurveSegments == {1, 2}

InitDim2 ==
    /\ vertices = <<>>
    /\ polygon = <<>>
    /\ triangles = <<>>
    /\ pc = "call"
    /\ call = NoCall
    /\ mesh = NoMesh
    /\ chain = NoChain
    /\ result = NoResult

Gave(c, r) ==
    /\ call' = c
    /\ result' = r
    /\ pc' = IF r.ok THEN "returned" ELSE "panicked"
    /\ UNCHANGED <<vertices, polygon, triangles, mesh, chain>>

Arc ==
    /\ pc = "call"
    /\ \E start \in ArcStarts, degrees \in ArcDegrees, segments \in 1..MaxArc :
          /\ OnTable(degrees, segments)
          /\ Gave([op |-> "arc", start |-> start, degrees |-> degrees,
                   segments |-> segments],
                  arc(start, degrees, segments))

Circle ==
    /\ pc = "call"
    /\ \E radius \in 1..MaxRadius, segments \in CircleSegments :
          Gave([op |-> "circle", radius |-> radius, segments |-> segments],
               circle(radius * 1000, segments))

InscribedPolygon ==
    /\ pc = "call"
    /\ \E n_sides \in PolygonSides, radius \in 1..MaxRadius :
          Gave([op |-> "inscribed_polygon", n_sides |-> n_sides, radius |-> radius],
               inscribed_polygon(n_sides, radius * 1000))

CircumscribedPolygon ==
    /\ pc = "call"
    /\ \E n_sides \in PolygonSides, radius \in 1..MaxRadius :
          Gave([op |-> "circumscribed_polygon", n_sides |-> n_sides, radius |-> radius],
               circumscribed_polygon(n_sides, radius * 1000))

RoundedRect ==
    /\ pc = "call"
    /\ \E width \in 1..MaxSize, height \in 1..MaxSize, radius \in CornerRadii,
          segments \in CornerSegments, center \in BOOLEAN :
          /\ 2 * radius <= width * 1000
          /\ 2 * radius <= height * 1000
          /\ Gave([op |-> "rounded_rect", width |-> width, height |-> height,
                   radius |-> radius, segments |-> segments, center |-> center],
                  rounded_rect(width * 1000, height * 1000, radius, segments, center))

Chamfer ==
    /\ pc = "call"
    /\ \E size \in 1..MaxSize, oversize \in 1..MaxSize :
          Gave([op |-> "chamfer", size |-> size, oversize |-> oversize],
               chamfer(size * 1000, oversize * 1000))

Star ==
    /\ pc = "call"
    /\ \E n_points \in StarPoints, inner_radius \in 1..MaxSize,
          outer_radius \in 1..MaxSize :
          Gave([op |-> "star", n_points |-> n_points, inner_radius |-> inner_radius,
                outer_radius |-> outer_radius],
               star(n_points, inner_radius * 1000, outer_radius * 1000))

BezierStar ==
    /\ pc = "call"
    /\ \E n_points \in BezierStarPoints, inner_radius \in 1..MaxSize,
          outer_radius \in 1..MaxSize, inner_handle_length \in HandleLengths,
          outer_handle_length \in HandleLengths, segments \in CurveSegments :
          Gave([op |-> "bezier_star", n_points |-> n_points,
                inner_radius |-> inner_radius,
                inner_handle_length |-> inner_handle_length,
                outer_radius |-> outer_radius,
                outer_handle_length |-> outer_handle_length,
                segments |-> segments],
               bezier_star(n_points, inner_radius * 1000, inner_handle_length,
                           outer_radius * 1000, outer_handle_length, segments))

NextDim2 ==
    \/ Arc \/ Circle \/ InscribedPolygon \/ CircumscribedPolygon
    \/ RoundedRect \/ Chamfer \/ Star \/ BezierStar

SpecDim2 == InitDim2 /\ [][NextDim2]_vars

ClosedGenerators ==
    {"circle", "inscribed_polygon", "circumscribed_polygon", "rounded_rect",
     "chamfer", "star", "bezier_star"}

\* C14: every closed profile (3 points or more) returned by circle,
\* inscribed_polygon, circumscribed_polygon, rounded_rect, chamfer, star and
\* bezier_star lists its points clockwise: its signed area is negative.
C14_GeneratorsClockwise ==
    (pc = "returned" /\ call.op \in ClosedGenerators /\ Len(result.pts) >= 3) =>
        IsClockwise(result.pts)

\* p turned clockwise by theta degrees (x to the right, y up)
TurnedClockwise(p, theta) ==
    << RoundDiv(p[1] * dcos(theta) + p[2] * dsin(theta), 1000),
       RoundDiv(p[2] * dcos(theta) - p[1] * dsin(theta), 1000) >>

\* C15: arc(start, degrees, segments) returns segments points when degrees
\* is 360 and segments + 1 otherwise, point i being start turned clockwise by
\* i * degrees / segments; circle(r, n) has n points and does not repeat its
\* first point at the end (circle(5, 8) has 8 points), and circle(10, 4) is
\* (10,0), (0,-10), (-10,0), (0,10).
C15_ArcPoints ==
    /\ (pc = "returned" /\ call.op = "arc") =>
          /\ Len(result.pts) =
                IF call.degrees = 360 THEN call.segments ELSE call.segments + 1
          /\ \A k \in 1..Len(result.pts) :
                result.pts[k] =
                    TurnedClockwise(call.start,
                                    ((k - 1) * call.degrees) \div call.segments)
    /\ (pc = "returned" /\ call.op = "circle") =>
          /\ Len(result.pts) = call.segments
          /\ result.pts[1] = << call.radius * 1000, 0 >>
          /\ call.segments >= 2 => result.pts[Len(result.pts)] # result.pts[1]
          /\ (call.radius = 5 /\ call.segments = 8) => Len(result.pts) = 8
          /\ (call.radius = 10 /\ call.segments = 4) =>
                result.pts = << << 10000, 0 >>, << 0, -10000 >>,
                                << -10000, 0 >>, << 0, 10000 >> >>
    /\ (call.op = "arc" /\ call.degrees <= 360) => pc = "returned"
    /\ call.op = "circle" => pc = "returned"

C15_Witness ==
    /\ pc = "returned"
    /\ call.op = "circle"
    /\ call.radius = 5
    /\ call.segments = 8
    /\ Len(result.pts) = 8

\* --------------------------- CubicBezierChain2D / CubicBezierChain3D in use
\* control points and knots, in thousandths; a chain is 2D or 3D throughout
ChainPoints2 == {<< 0, 0 >>, << 1000, 0 >>, << 3000, 4000 >>}
ChainPoints3 == {<< 0, 0, 0 >>, << 0, 0, 1000 >>, << 2000, 2000, 1000 >>}
ChainPoints(dim) == IF dim = 2 THEN ChainPoints2 ELSE ChainPoints3
ChainLengths == {500, 2000}

Dim(ch) == Len(ch.curves[1].start)
ChainEnd(ch) == ch.curves[Len(ch.curves)]

\* CubicBezierChain2D::new / CubicBezierChain3D::new has returned.  The
\* points are drawn with control2 # end, here and in Add and Close, so that
\* the vector add() normalizes is never zero.
InitChain ==
    /\ vertices = <<>>
    /\ polygon = <<>>
    /\ triangles = <<>>
    /\ pc = "returned"
    /\ mesh = NoMesh
    /\ result = NoResult
    /\ \E dim \in {2, 3} :
       \E start \in ChainPoints(dim), control2 \in ChainPoints(dim),
          end \in ChainPoints(dim) :
          /\ control2 # end
          /\ \E segments \in CurveSegments :
                chain = new(start, start, control2, end, segments)
          /\ call = [op |-> "new"]

Add ==
    /\ Len(chain.curves) < MaxCurves
    /\ \E control1_length \in ChainLengths, control2 \in ChainPoints(Dim(chain)),
          end \in ChainPoints(Dim(chain)), segments \in {1} :
          /\ control2 # end
          /\ chain' = add(chain, control1_length, control2, end, segments)
          /\ call' = [op |-> "add", control1_length |-> control1_length,
                      control2 |-> control2, end |-> end, segments |-> segments]
    /\ UNCHANGED <<vertices, polygon, triangles, pc, mesh, result>>

Close ==
    /\ Len(chain.curves) < MaxCurves
    /\ \E control1_length \in {500}, control2 \in ChainPoints(Dim(chain)),
          start_control1_len \in ChainLengths, segments \in {1} :
          /\ control2 # chain.curves[1].start
          /\ chain' = close(chain, control1_length, control2, start_control1_len,
                            segments)
          /\ call' = [op |-> "close", control1_length |-> control1_length,
                      control2 |-> control2,
                      start_control1_len |-> start_control1_len,
                      segments |-> segments]
    /\ UNCHANGED <<vertices, polygon, triangles, pc, mesh, result>>

GenPoints ==
    /\ result' = Pts(gen_points(chain))
    /\ call' = [op |-> "gen_points"]
    /\ UNCHANGED <<vertices, polygon, triangles, pc, mesh, chain>>

NextChain == Add \/ Close \/ GenPoints

SpecChain == InitChain /\ [][NextChain]_vars

\* C16: once a chain is closed no later call appends a segment: from a
\* state whose closed flag is set, no step makes the curve list longer.
C16_ClosedStaysClosed ==
    [][chain.closed => Len(chain'.curves) <= Len(chain.curves)]_vars

\* C17: add(L, control2, end, segments) on a chain whose last curve ends at
\* E with second control point C2 # E appends one curve that starts at E,
\* whose first control point is E + L * (E - C2) / |E - C2| (to within two
\* thousandths: on the ray from E away from C2, at distance L), whose
\* control2 and end are the arguments, and leaves the earlier curves as
\* they were.
C17_TangentHandle ==
    [][call'.op = "add" =>
        LET before == chain.curves
            after == chain'.curves
            E == ChainEnd(chain).end
            C2 == ChainEnd(chain).control2
            seg == ChainEnd(chain')
            d == VSub(seg.control1, E)
            v == VSub(E, C2)
            L == call'.control1_length
        IN  E # C2 =>
              /\ Len(after) = Len(before) + 1
              /\ SubSeq(after, 1, Len(before)) = before
              /\ seg.start = E
              /\ seg.control2 = call'.control2
              /\ seg.end = call'.end
              /\ \A i \in DOMAIN d :
                    Abs(d[i] * VLen(v) - L * v[i]) <= 2 * VLen(v) + L]_vars

\* add(0.5, ..) after a curve that ends at (3, 4) with control2 (0, 0): the
\* new first control point is (3.3, 4.4)
C17_Witness ==
    /\ call.op = "add"
    /\ call.control1_length = 500
    /\ Len(chain.curves) >= 2
    /\ chain.curves[Len(chain.curves) - 1].end = << 3000, 4000 >>
    /\ chain.curves[Len(chain.curves) - 1].control2 = << 0, 0 >>
    /\ ChainEnd(chain).start = << 3000, 4000 >>
    /\ ChainEnd(chain).control1 = << 3300, 4400 >>

\* --------------------------------------- Mt4::look_at_matrix_lh, one call
UpVectors == ((-MaxUp)..MaxUp) \X ((-MaxUp)..MaxUp) \X ((-MaxUp)..MaxUp)
               \ {<< 0, 0, 0 >>}
Eyes == {<< 0, 0, 0 >>, << 1, 0, 2 >>}
Steps == {-2, -1, 1, 2, 3}

\* center - eye a multiple of up, or, for the up the crate always passes,
\* a step along any axis
Centers(eye, up) ==
    {Add3(eye, << k * up[1], k * up[2], k * up[3] >>) : k \in Steps}
      \cup (IF up = << 0, 0, 1 >>
            THEN {Add3(eye, << k * e[1], k * e[2], k * e[3] >>) :
                     k \in Steps, e \in Axes}
            ELSE {})

InitLookAt ==
    /\ vertices = <<>>
    /\ polygon = <<>>
    /\ triangles = <<>>
    /\ pc = "call"
    /\ call = NoCall
    /\ mesh = NoMesh
    /\ chain = NoChain
    /\ result = NoResult

LookAt ==
    /\ pc = "call"
    /\ \E eye \in Eyes, up \in UpVectors :
       \E center \in Centers(eye, up) :
          /\ call' = [op |-> "look_at_matrix_lh", eye |-> eye, center |-> center,
                      up |-> up]
          /\ result' = [ok |-> TRUE, m |-> look_at_matrix_lh(eye, center, up)]
          /\ pc' = "returned"
    /\ UNCHANGED <<vertices, polygon, triangles, mesh, chain>>

SpecLookAt == InitLookAt /\ [][LookAt]_vars

\* C18: look_at_matrix_lh(eye, center, up) with eye # center returns the
\* identity when center - eye points the way up does, and the rotation by
\* 180 degrees about X when it points the opposite way.
C18_ParallelFallback ==
    (pc = "returned" /\ call.op = "look_at_matrix_lh"
       /\ call.eye # call.center
       /\ Cross3(call.up, Sub3(call.center, call.eye)) = << 0, 0, 0 >>) =>
        /\ Dot3(call.up, Sub3(call.center, call.eye)) > 0 => result.m = identity
        /\ Dot3(call.up, Sub3(call.center, call.eye)) < 0 =>
              result.m = rot_x_matrix(180)

\* ------------------------------------------------ metric_thread.rs, m_table
I32Max == 2147483647
I32Min == -I32Max - 1     \* the subtraction m - 1 overflows only here

\* one dictionary of thread attributes, in thousandths of a millimetre
E(pitch, external_dMaj, internal_dMaj, nut_width, chamfer_size) ==
    [pitch |-> pitch, external_dMaj |-> external_dMaj,
     internal_dMaj |-> internal_dMaj, nut_width |-> nut_width,
     chamfer_size |-> chamfer_size]

m_table ==
    2 :> E(400, 1886, 2148, 4000, 1450)
    @@ 3 :> E(500, 2874, 3172, 5500, 1600)
    @@ 4 :> E(700, 3838, 4219, 7000, 1800)
    @@ 5 :> E(800, 4826, 5240, 8000, 1900)
    @@ 6 :> E(1000, 5794, 6294, 10000, 2100)
    @@ 7 :> E(1000, 6794, 7294, 13000, 2450)
    @@ 8 :> E(1250, 7760, 8340, 13000, 2450)
    @@ 9 :> E(1250, 8760, 9340, 16000, 2800)
    @@ 10 :> E(1500, 9732, 10396, 16000, 2800)
    @@ 11 :> E(1500, 10730, 11387, 18000, 3000)
    @@ 12 :> E(1750, 11700, 12453, 18000, 3000)
    @@ 14 :> E(2000, 13680, 14501, 21000, 3350)
    @@ 15 :> E(1500, 14730, 15407, 24000, 3700)
    @@ 16 :> E(2000, 15680, 16501, 24000, 3700)
    @@ 17 :> E(1500, 16730, 17407, 27000, 3900)
    @@ 18 :> E(2500, 17620, 18585, 27000, 3900)
    @@ 20 :> E(2500, 19620, 20585, 30000, 4250)
    @@ 22 :> E(3000, 21580, 22677, 34000, 4750)
    @@ 24 :> E(3000, 23580, 24698, 36000, 4900)
    @@ 25 :> E(2000, 24680, 25513, 41000, 5500)
    @@ 26 :> E(1500, 25730, 26417, 41000, 5500)
    @@ 27 :> E(3000, 26580, 27698, 41000, 5500)
    @@ 28 :> E(2000, 27680, 28513, 46000, 6000)
    @@ 30 :> E(3500, 29520, 30785, 46000, 6000)
    @@ 32 :> E(2000, 31680, 32513, 49000, 6400)
    @@ 33 :> E(3500, 32540, 33785, 49000, 6400)
    @@ 35 :> E(1500, 34730, 35416, 55000, 7000)
    @@ 36 :> E(4000, 35470, 36877, 55000, 7000)
    @@ 38 :> E(1500, 37730, 38417, 60000, 7500)
    @@ 39 :> E(4000, 38470, 39877, 60000, 7500)
    @@ 40 :> E(3000, 39580, 40698, 65000, 8200)
    @@ 42 :> E(4500, 41440, 42965, 65000, 8200)
    @@ 45 :> E(4500, 44440, 45965, 70000, 8750)
    @@ 48 :> E(5000, 47400, 49057, 75000, 9250)
    @@ 50 :> E(4000, 49470, 50892, 80000, 9500)
    @@ 52 :> E(5000, 51400, 53037, 80000, 9500)
    @@ 55 :> E(4000, 54470, 55892, 85000, 10250)
    @@ 56 :> E(5500, 55370, 57149, 85000, 10250)
    @@ 58 :> E(4000, 57470, 58892, 90000, 10750)
    @@ 60 :> E(5500, 59370, 61149, 90000, 10750)
    @@ 62 :> E(4000, 61470, 62892, 95000, 11250)
    @@ 63 :> E(1500, 62730, 63429, 95000, 11250)
    @@ 64 :> E(6000, 63320, 65421, 95000, 11250)
    @@ 65 :> E(4000, 64470, 65892, 100000, 11750)
    @@ 68 :> E(6000, 67320, 69241, 100000, 11750)
    @@ 70 :> E(6000, 69320, 71241, 100000, 11750)
    @@ 72 :> E(6000, 71320, 73241, 110000, 13000)
    @@ 75 :> E(6000, 74320, 76241, 110000, 13000)
    @@ 76 :> E(6000, 75320, 77241, 110000, 13000)
    @@ 78 :> E(2000, 77680, 78525, 120000, 14250)
    @@ 80 :> E(6000, 79320, 81241, 120000, 14250)
    @@ 82 :> E(2000, 81680, 82525, 120000, 14250)
    @@ 85 :> E(6000, 84320, 86241, 130000, 15250)
    @@ 90 :> E(6000, 89320, 91241, 130000, 15250)
    @@ 95 :> E(6000, 94320, 96266, 130000, 15250)
    @@ 100 :> E(6000, 99320, 101270, 140000, 16500)

contains_key(m) == m \in DOMAIN m_table

DecrementTwice(m) == m - 2
\* m -= 1
Decrement(m) == m - 1

\* ---------------------------------------------- m_table_lookup, one call
Sizes == {I32Min} \cup ((-3)..MaxM)

InitThread ==
    /\ vertices = <<>>
    /\ polygon = <<>>
    /\ triangles = <<>>
    /\ pc = "call"
    /\ call \in {[op |-> "m_table_lookup", m |-> m, cur |-> m] : m \in Sizes}
    /\ mesh = NoMesh
    /\ chain = NoChain
    /\ result = NoResult

\* let mut m = m; if m < 2 { m = 2; }
Clamp ==
    /\ pc = "call"
    /\ call.op = "m_table_lookup"
    /\ call' = [call EXCEPT !.cur = IF call.m < 2 THEN 2 ELSE call.m]
    /\ pc' = "loop"
    /\ UNCHANGED <<vertices, polygon, triangles, mesh, chain, result>>

\* one turn of the loop that does not find the key
Scan ==
    /\ pc = "loop"
    /\ ~contains_key(call.cur)
    /\ call' = [call EXCEPT !.cur = Decrement(call.cur)]
    /\ UNCHANGED <<vertices, polygon, triangles, pc, mesh, chain, result>>

\* the turn that finds the key: break, return m_table[&m].clone()
Found ==
    /\ pc = "loop"
    /\ contains_key(call.cur)
    /\ result' = [ok |-> TRUE, key |-> call.cur, entry |-> m_table[call.cur]]
    /\ pc' = "returned"
    /\ UNCHANGED <<vertices, polygon, triangles, call, mesh, chain>>

NextThread == Clamp \/ Scan \/ Found

SpecThread == InitThread /\ [][NextThread]_vars /\ WF_vars(NextThread)

\* the keys in increasing order, and the search over them that clamps to
\* the nearest key not above the request
RECURSIVE KeysFrom(_)
KeysFrom(k) ==
    IF k > 100 THEN <<>>
    ELSE IF contains_key(k) THEN << k >> \o KeysFrom(k + 1)
    ELSE KeysFrom(k + 1)
SortedKeys == KeysFrom(2)

RECURSIVE ClampSearch(_, _, _)
ClampSearch(lo, hi, m) ==
    IF lo = hi THEN SortedKeys[lo]
    ELSE LET mid == (lo + hi + 1) \div 2
         IN IF SortedKeys[mid] <= m THEN ClampSearch(mid, hi, m)
            ELSE ClampSearch(lo, mid - 1, m)

Requested(m) == IF m < 2 THEN 2 ELSE m

\* C19: for every size m, m_table_lookup(m) returns, and what it returns is
\* the entry of the greatest key that is at most max(m, 2): the M2 entry for
\* m < 2, the M100 entry for m > 100, and the entry a clamping search over
\* the sorted keys finds.
C19_LookupClamps ==
    /\ [](pc = "loop" => call.cur >= 2 /\ call.cur <= I32Max)
    /\ [](pc = "returned" =>
            /\ contains_key(result.key)
            /\ result.key <= Requested(call.m)
            /\ \A k \in DOMAIN m_table :
                   k <= Requested(call.m) => k <= result.key
            /\ result.key = ClampSearch(1, Len(SortedKeys), call.m)
            /\ result.entry = m_table[result.key]
            /\ call.m < 2 => result.key = 2
            /\ call.m > 100 => result.key = 100)
    /\ <>(pc = "returned")

C19_Witness ==
    /\ pc = "returned"
    /\ call.op = "m_table_lookup"
    /\ call.m = 23
    /\ result.key = 22
    /\ result.entry.pitch = 3000

\* ----------------------------------------------------- scad.rs, Scad trees
\* Scad { op, children }; the shapes carry no children
Leaves == {[op |-> "Circle", children |-> <<>>],
           [op |-> "Square", children |-> <<>>],
           [op |-> "Cube", children |-> <<>>]}

\* union!(c1; c2; ...;) and its two siblings: vec![$($child,)+]
union(children) == [op |-> "Union", children |-> children]
difference(children) == [op |-> "Difference", children |-> children]
intersection(children) == [op |-> "Intersection", children |-> children]

\* impl Add for Scad: union!(self; rhs;)
Scad_add(self, rhs) == union(<< self, rhs >>)

\* impl Sub for Scad: difference!(self; rhs;)
rhs_sub(self, rhs) == difference(<< rhs, self >>)
Scad_sub(self, rhs) == difference(<< self, rhs >>)

RECURSIVE NodeCount(_)
SumCounts(children) ==
    LET RECURSIVE upto(_)
        upto(i) == IF i = 0 THEN 0
                   ELSE NodeCount(children[i]) + upto(i - 1)
    IN upto(Len(children))
NodeCount(scad) == 1 + SumCounts(scad.children)

\* ------------------------------------------- building one tree, call by call
\* a call is given shapes and, possibly, the tree built so far
Operands == Leaves \cup (IF result.ok THEN {result.scad} ELSE {})
ChildLists ==
    {c \in UNION {[1..n -> Operands] : n \in 1..MaxChildren} :
        SumCounts(c) <= MaxNodes}

InitScad ==
    /\ vertices = <<>>
    /\ polygon = <<>>
    /\ triangles = <<>>
    /\ pc = "returned"
    /\ call = NoCall
    /\ mesh = NoMesh
    /\ chain = NoChain
    /\ result = NoResult

BuiltScad(op, children, scad) ==
    /\ call' = [op |-> op, children |-> children]
    /\ result' = [ok |-> TRUE, scad |-> scad]
    /\ UNCHANGED <<vertices, polygon, triangles, pc, mesh, chain>>

ScadAdd ==
    \E c \in ChildLists :
        Len(c) = 2 /\ BuiltScad("add", c, Scad_add(c[1], c[2]))

ScadSub ==
    \E c \in ChildLists :
        Len(c) = 2 /\ BuiltScad("sub", c, Scad_sub(c[1], c[2]))

\* a + b - c, which Rust reads as (a + b) - c
ScadAddSub ==
    \E c \in ChildLists :
        Len(c) = 3 /\ BuiltScad("add_sub", c, Scad_sub(Scad_add(c[1], c[2]), c[3]))

UnionMacro == \E c \in ChildLists : BuiltScad("union", c, union(c))

DifferenceMacro == \E c \in ChildLists : BuiltScad("difference", c, difference(c))

IntersectionMacro ==
    \E c \in ChildLists : BuiltScad("intersection", c, intersection(c))

NextScad ==
    \/ ScadAdd
    \/ ScadSub
    \/ ScadAddSub
    \/ UnionMacro
    \/ DifferenceMacro
    \/ IntersectionMacro

SpecScad == InitScad /\ [][NextScad]_vars

\* C20: a + b is a Union node and a - b a Difference node with children
\* exactly [a, b]; union!, difference! and intersection! build their node
\* with the arguments as children, in order, none added and none dropped;
\* a + b - c is Difference[Union[a, b], c], so the first child of the
\* Difference is the shape subtracted from.
C20_ChildrenInOrder ==
    result.ok /\ call.op \in {"add", "sub", "add_sub", "union", "difference",
                              "intersection"} =>
        LET c == call.children
            r == result.scad
        IN /\ call.op = "add" =>
                 r.op = "Union" /\ r.children = << c[1], c[2] >>
           /\ call.op = "sub" =>
                 r.op = "Difference" /\ r.children = << c[1], c[2] >>
           /\ call.op = "union" => r.op = "Union" /\ r.children = c
           /\ call.op = "difference" => r.op = "Difference" /\ r.children = c
           /\ call.op = "intersection" =>
                 r.op = "Intersection" /\ r.children = c
           /\ call.op = "add_sub" =>
                 /\ r.op = "Difference"
                 /\ Len(r.children) = 2
                 /\ r.children[1].op = "Union"
                 /\ r.children[1].children = << c[1], c[2] >>
                 /\ r.children[2] = c[3]

\* (circle + square) - cube, with the sum built by an earlier call
C20_Witness ==
    /\ result.ok
    /\ call.op = "sub"
    /\ call.children[1] = [op |-> "Union",
                           children |-> << [op |-> "Circle", children |-> <<>>],
                                           [op |-> "Square", children |-> <<>>] >>]
    /\ call.children[2] = [op |-> "Cube", children |-> <<>>]
    /\ result.scad.op = "Difference"
    /\ result.scad.children[1] = call.children[1]
    /\ result.scad.children[2].op = "Cube"

\* ------------------------------------------------------ claims C21 .. C30
\* p lies in the interior of the triangle a, b, c (not on its boundary)
StrictlyInside(p, a, b, c) ==
    LET s1 == Sign(Cross(a, b, p))
        s2 == Sign(Cross(b, c, p))
        s3 == Sign(Cross(c, a, p))
    IN  s1 # 0 /\ s1 = s2 /\ s2 = s3

\* the ring entries other than the ear and its two neighbours that lie
\* strictly inside the ear's triangle
InsideEar(poly, eartip) ==
    LET len == Len(poly)
        p == PrevIdx(len, eartip)
        n == NextIdx(len, eartip)
    IN  {j \in 0..(len - 1) :
            /\ j \notin {p, eartip, n}
            /\ StrictlyInside(At(poly, j)[2], At(poly, p)[2],
                              At(poly, eartip)[2], At(poly, n)[2])}

\* C21: whenever a vertex is clipped, no other vertex of the working ring,
\* before or after the clipped one in ring order, lies strictly inside the
\* emitted triangle.
C21_EarIsEmpty ==
    [][(pc = "loop" /\ polygon' # polygon) =>
          InsideEar(polygon, FindEar(polygon)) = {}]_vars

\* the candidate at index and its two ring neighbours are collinear
ZeroArea(poly, index) ==
    Cross(At(poly, PrevIdx(Len(poly), index))[2], At(poly, index)[2],
          At(poly, NextIdx(Len(poly), index))[2]) = 0

\* the scan reaches index: no candidate before it was taken as the ear
ScanReaches(poly, index) == \A k \in 0..(index - 1) : ~IsEar(poly, k)

\* C22: a candidate whose triangle with its two ring neighbours has zero
\* area is taken as an ear: when the scan reaches it, it is the vertex
\* clipped, whatever other vertices remain in the ring.
C22_CollinearIsEar ==
    (pc = "loop" /\ Len(polygon) >= 3) =>
        \A i \in 0..(Len(polygon) - 1) :
            (ZeroArea(polygon, i) /\ ScanReaches(polygon, i)) =>
                FindEar(polygon) = i

\* twice the signed area, in the profile's own coordinates, of the triangle
\* face f of a cap whose ring starts at index base
CapArea2(vs, f, base) ==
    Cross(At(vs, f[1] - base), At(vs, f[2] - base), At(vs, f[3] - base))

RECURSIVE SumOver(_, _, _, _)
SumOver(vs, faces, S, base) ==
    IF S = {} THEN 0
    ELSE LET k == CHOOSE j \in S : TRUE
         IN  Abs(CapArea2(vs, faces[k], base)) + SumOver(vs, faces, S \ {k}, base)

\* the triangles of faces over the ring base .. base + Len(vs) - 1 are
\* Len(vs) - 2 triangles of one orientation whose areas sum to the area of vs
ValidCap(vs, faces, base) ==
    LET cap == TrianglesIn(faces, base, base + Len(vs))
    IN  /\ Cardinality(cap) = Len(vs) - 2
        /\ \/ \A k \in cap : CapArea2(vs, faces[k], base) > 0
           \/ \A k \in cap : CapArea2(vs, faces[k], base) < 0
        /\ SumOver(vs, faces, cap, base) = Abs(Area2(vs))

\* C23: for every open angle 0 < degrees < 360 the end cap of rotate_extrude
\* is a valid triangulation of the profile, as the start cap is: P-2
\* triangles of one orientation, in the profile's coordinates, whose areas
\* sum to the profile's area.
C23_EndCapValid ==
    (/\ call.op = "rotate_extrude"
     /\ Len(vertices) >= 4
     /\ 0 < call.degrees /\ call.degrees < 360
     /\ call.segments >= 3) =>
        /\ mesh.ok
        /\ ValidCap(vertices, mesh.faces, 0)
        /\ ValidCap(vertices, mesh.faces, call.segments * Len(vertices))

\* C24: an open sweep whose first path segment points along an axis, in
\* either direction, returns, and its start cap is a valid triangulation of
\* the clockwise profile, as its end cap is.
C24_StartCapValid ==
    (/\ call.op = "sweep"
     /\ ~call.closed
     /\ Len(vertices) >= 4
     /\ AxisAligned(Sub3(At(call.path, 1), At(call.path, 0)))) =>
        /\ mesh.ok
        /\ ValidCap(vertices, mesh.faces, 0)
        /\ ValidCap(vertices, mesh.faces, Len(mesh.points) - Len(vertices))

\* ------------------------------- Polyhedron::sweep, the frames of one call
\* path points are corners of the unit cube
PathPoints == (0..1) \X (0..1) \X (0..1)
AnyPaths == UNION {[1..n -> PathPoints] : n \in 2..MaxPath}

InitFrames ==
    /\ vertices = <<>>
    /\ polygon = <<>>
    /\ triangles = <<>>
    /\ pc = "call"
    /\ call \in {[op |-> "sweep", path |-> path, closed |-> closed] :
                    path \in AnyPaths, closed \in BOOLEAN}
    /\ mesh = NoMesh
    /\ chain = NoChain
    /\ result = NoResult

\* the calls of look_at_matrix_lh made by sweep, as <<eye, center>>
SweepFrames ==
    /\ pc = "call"
    /\ call.op = "sweep"
    /\ result' = [ok |-> TRUE, frames |-> LookAtPairs(call.path, call.closed)]
    /\ pc' = "returned"
    /\ UNCHANGED <<vertices, polygon, triangles, call, mesh, chain>>

SpecFrames == InitFrames /\ [][SweepFrames]_vars

\* no two consecutive points of the path are equal, for a closed path the
\* last and the first included
NoRepeat(path, closed) ==
    /\ \A i \in 1..(Len(path) - 1) : path[i] # path[i + 1]
    /\ closed => path[Len(path)] # path[1]

\* C25: when the path has at least 2 points and no two consecutive points
\* are equal, every frame sweep builds, for ring 0, for the interior rings
\* and for the last ring, looks from one point at a different point.
C25_FramesFromDistinctPoints ==
    (pc = "returned" /\ call.op = "sweep" /\ result.ok
       /\ Len(call.path) >= 2 /\ NoRepeat(call.path, call.closed)) =>
        \A pr \in result.frames : pr[1] # pr[2]

\* ------------------------------------ metric_thread.rs, threaded_cylinder
\* Lengths and the pitch are whole millimetres, angles whole degrees.  The
\* shell's vertices are kept as the profile they were computed from, the
\* helix step and the corner 0..3, its faces as the index triples pushed.

\* n_steps = (n_revolutions * segments as f64) as usize, with
\* thread_length = length - 0.7 * pitch and n_revolutions = thread_length /
\* pitch; the cast gives 0 for a negative product
n_steps_of(length, pitch, segments) ==
    IF 10 * length - 7 * pitch < 0 THEN 0
    ELSE ((10 * length - 7 * pitch) * segments) \div (10 * pitch)

\* (segments as f64 * lead_in_degrees / 360.0 + 2.0) as usize
n_lead_in_steps_of(segments, lead_in_degrees) ==
    (segments * lead_in_degrees) \div 360 + 2

\* (segments as f64 * lead_out_degrees / 360.0) as usize
n_lead_out_steps_of(segments, lead_out_degrees) ==
    (segments * lead_out_degrees) \div 360

FourVertices(profile, step, counter) ==
    [k \in 1..4 |-> [profile |-> profile, step |-> step, corner |-> k - 1,
                     counter |-> counter]]

\* the starting end face, lines 154-164
StartFaces(left_hand_thread) ==
    IF left_hand_thread THEN << << 2, 1, 0 >>, << 3, 1, 2 >> >>
    ELSE << << 0, 1, 2 >>, << 2, 1, 3 >> >>

Offset(f, index_offset) ==
    << f[1] + index_offset, f[2] + index_offset, f[3] + index_offset >>

\* the eight triangles of one helix step, lines 286-369
StepFaces(left_hand_thread, index_offset) ==
    LET fs == IF left_hand_thread
              THEN << << 3, 5, 1 >>, << 7, 5, 3 >>, << 1, 4, 0 >>, << 5, 4, 1 >>,
                      << 0, 6, 2 >>, << 4, 6, 0 >>, << 2, 7, 3 >>, << 6, 7, 2 >> >>
              ELSE << << 1, 5, 3 >>, << 3, 5, 7 >>, << 0, 4, 1 >>, << 1, 4, 5 >>,
                      << 2, 6, 0 >>, << 0, 6, 4 >>, << 3, 7, 2 >>, << 2, 7, 6 >> >>
    IN  [k \in 1..8 |-> Offset(fs[k], index_offset)]

\* the closing end face, lines 372-395
EndFaces(left_hand_thread, index_offset) ==
    LET fs == IF left_hand_thread THEN << << 5, 7, 6 >>, << 4, 5, 6 >> >>
              ELSE << << 6, 7, 5 >>, << 6, 5, 4 >> >>
    IN  [k \in 1..2 |-> Offset(fs[k], index_offset)]

\* ------------------------------ threaded_cylinder, one helix step a step
ThreadSegments == {4, 6, 8}
LeadDegrees == {0, 90, 180, 360, 720}
ThreadCalls ==
    {c \in [op : {"threaded_cylinder"}, pitch : {1}, length : 1..MaxLength,
            segments : ThreadSegments, lead_in_degrees : LeadDegrees,
            lead_out_degrees : LeadDegrees, left_hand_thread : BOOLEAN] :
        n_steps_of(c.length, c.pitch, c.segments) >= 2}

InitShell ==
    /\ vertices = <<>>
    /\ polygon = <<>>
    /\ triangles = <<>>
    /\ pc = "call"
    /\ call \in ThreadCalls
    /\ mesh = NoMesh
    /\ chain = NoChain
    /\ result = NoResult

\* lines 110-180: the counters, the first four vertices, the start face
ShellStart ==
    /\ pc = "call"
    /\ call.op = "threaded_cylinder"
    /\ result' = [ok |-> FALSE,
                  n_steps |-> n_steps_of(call.length, call.pitch, call.segments),
                  n_lead_in_steps |->
                      n_lead_in_steps_of(call.segments, call.lead_in_degrees),
                  n_lead_out_steps |->
                      n_lead_out_steps_of(call.segments, call.lead_out_degrees),
                  lead_in |-> call.lead_in_degrees > 0,
                  lead_out |-> call.lead_out_degrees > 0,
                  lead_in_step |-> 3,
                  lead_out_step |->
                      n_lead_out_steps_of(call.segments, call.lead_out_degrees),
                  step |-> 0,
                  kinds |-> <<>>]
    /\ mesh' = [ok |-> FALSE, points |-> FourVertices("lead_in_start", 0, 2),
                faces |-> StartFaces(call.left_hand_thread)]
    /\ pc' = "loop"
    /\ UNCHANGED <<vertices, polygon, triangles, call, chain>>

InLoop == pc = "loop" /\ call.op = "threaded_cylinder"
                     /\ result.step < result.n_steps - 1

TakesLeadIn == result.lead_in_step < result.n_lead_in_steps /\ result.lead_in

\* n_steps - n_lead_out_steps is computed, in usize, once lead_out_step > 0
\* has held
Subtracts == ~TakesLeadIn /\ result.lead_out_step > 0
Underflows == result.n_lead_out_steps > result.n_steps

TakesLeadOutAnywhere == Subtracts /\ ~Underflows /\ result.lead_out
TakesLeadOut ==
    /\ Subtracts
    /\ ~Underflows
    /\ result.step >= result.n_steps - result.n_lead_out_steps
    /\ result.lead_out

\* lines 281-369: the four vertices and eight triangles of the step
Pushed(profile, counter) ==
    /\ mesh' = [mesh EXCEPT
                  !.points = @ \o FourVertices(profile, result.step, counter),
                  !.faces = @ \o StepFaces(call.left_hand_thread, result.step * 4)]
    /\ UNCHANGED <<vertices, polygon, triangles, pc, call, chain>>

\* lines 189-223
StepLeadIn ==
    /\ InLoop
    /\ TakesLeadIn
    /\ result' = [result EXCEPT !.lead_in_step = @ + 1, !.step = @ + 1,
                                !.kinds = Append(@, "lead_in")]
    /\ Pushed("lead_in", result.lead_in_step)

\* lines 224-257
StepLeadOut ==
    /\ InLoop
    /\ TakesLeadOut
    /\ result' = [result EXCEPT !.lead_out_step = @ - 1, !.step = @ + 1,
                                !.kinds = Append(@, "lead_out")]
    /\ Pushed("lead_out", result.lead_out_step)

\* lines 258-279
StepThread ==
    /\ InLoop
    /\ ~TakesLeadIn
    /\ ~(Subtracts /\ Underflows)
    /\ ~TakesLeadOut
    /\ result' = [result EXCEPT !.step = @ + 1, !.kinds = Append(@, "thread")]
    /\ Pushed("thread", 0)

\* line 224 when the subtraction underflows: a build with overflow checks
\* panics
StepUnderflowPanic ==
    /\ InLoop
    /\ Subtracts /\ Underflows
    /\ pc' = "panicked"
    /\ UNCHANGED <<vertices, polygon, triangles, call, mesh, chain, result>>

\* line 224 when the subtraction underflows: a build without overflow checks
\* wraps to a number no step reaches, and the full profile is used
StepUnderflowWrap ==
    /\ InLoop
    /\ Subtracts /\ Underflows
    /\ result' = [result EXCEPT !.step = @ + 1, !.kinds = Append(@, "thread")]
    /\ Pushed("thread", 0)

\* lines 372-406: the end face, and the polyhedron
ShellEnd ==
    /\ pc = "loop"
    /\ call.op = "threaded_cylinder"
    /\ ~(result.step < result.n_steps - 1)
    /\ mesh' = [mesh EXCEPT
                  !.ok = TRUE,
                  !.faces = @ \o EndFaces(call.left_hand_thread,
                                          (result.n_steps - 2) * 4)]
    /\ result' = [result EXCEPT !.ok = TRUE]
    /\ pc' = "returned"
    /\ UNCHANGED <<vertices, polygon, triangles, call, chain>>

NextShell ==
    \/ ShellStart
    \/ StepLeadIn
    \/ StepLeadOut
    \/ StepThread
    \/ StepUnderflowPanic
    \/ StepUnderflowWrap
    \/ ShellEnd

SpecShell == InitShell /\ [][NextShell]_vars

\* C26: with n_steps >= 2, whatever the lead-in and lead-out spans,
\* threaded_cylinder runs to its end with no unsigned subtraction going
\* below zero and no index out of range, and its shell has 4*n_steps
\* vertices and 8*n_steps - 4 triangles with every index below 4*n_steps.
C26_ShellCounts ==
    (call.op = "threaded_cylinder" /\ pc # "call" /\ result.n_steps >= 2) =>
        /\ pc # "panicked"
        /\ pc = "loop" => ~(InLoop /\ Subtracts /\ Underflows)
        /\ pc = "returned" =>
              /\ Len(mesh.points) = 4 * result.n_steps
              /\ Len(mesh.faces) = 8 * result.n_steps - 4
              /\ \A k \in DOMAIN mesh.faces :
                    /\ Len(mesh.faces[k]) = 3
                    /\ \A i \in 1..3 : /\ mesh.faces[k][i] >= 0
                                       /\ mesh.faces[k][i] < 4 * result.n_steps

\* the profile used by each helix step so far follows the order lead-in,
\* full profile, lead-out, and the lead-out steps are late enough
KindsInOrder ==
    LET kinds == result.kinds
    IN  /\ \A i, j \in DOMAIN kinds :
              i < j => /\ kinds[j] = "lead_in" => kinds[i] = "lead_in"
                       /\ kinds[i] = "lead_out" => kinds[j] = "lead_out"
        /\ \A i \in DOMAIN kinds :
              kinds[i] = "lead_out" =>
                  i - 1 >= result.n_steps - result.n_lead_out_steps

\* what one helix step does to the two counters
CountersStep ==
    LET kind == result'.kinds[Len(result'.kinds)]
    IN  /\ kind = "lead_in" =>
              /\ result'.lead_in_step = result.lead_in_step + 1
              /\ result'.lead_in_step <= result.n_lead_in_steps
              /\ result'.lead_out_step = result.lead_out_step
        /\ kind = "lead_out" =>
              /\ result'.lead_out_step = result.lead_out_step - 1
              /\ result'.lead_out_step >= 1
              /\ result'.lead_in_step = result.lead_in_step
        /\ kind = "thread" =>
              /\ result'.lead_in_step = result.lead_in_step
              /\ result'.lead_out_step = result.lead_out_step

InShell == call.op = "threaded_cylinder" /\ pc \in {"loop", "returned"}
                /\ result.n_lead_out_steps <= result.n_steps

\* C27: in threaded_cylinder with n_lead_out_steps <= n_steps the helix
\* steps use the lead-in profile first, from step 0 on without a gap, then
\* the full profile, then the lead-out profile, which is used only at steps
\* >= n_steps - n_lead_out_steps; each lead-in step raises the lead-in
\* counter by one, never past n_lead_in_steps, and each lead-out step lowers
\* the lead-out counter by one, never below 1.
C27_ProfileOrder ==
    /\ [](InShell => KindsInOrder)
    /\ [][(InShell /\ pc = "loop" /\ result'.step = result.step + 1)
             => CountersStep]_vars

C27_Witness ==
    /\ InShell
    /\ pc = "returned"
    /\ \E i, j, k \in DOMAIN result.kinds :
          /\ i < j /\ j < k
          /\ result.kinds[i] = "lead_in"
          /\ result.kinds[j] = "thread"
          /\ result.kinds[k] = "lead_out"

\* ------------------------------------------------ Mt4 on points (mt4.rs)
\* Mt4::translate_matrix: the identity with the translation in its w row
translate_matrix(x, y, z) ==
    Mt4(identity[1], identity[2], identity[3], << x, y, z, identity[4][4] >>)

\* at a multiple of 90 degrees (residue dropped, see SinTable)
rot_y_matrix(degrees) ==
    LET c == dcos(degrees) \div 1000
        s == dsin(degrees) \div 1000
    IN  transposed(Mt4(<< c, 0, s, 0 >>, << 0, 1, 0, 0 >>,
                       << -s, 0, c, 0 >>, << 0, 0, 0, 1 >>))

rot_z_matrix(degrees) ==
    LET c == dcos(degrees) \div 1000
        s == dsin(degrees) \div 1000
    IN  transposed(Mt4(<< c, -s, 0, 0 >>, << s, c, 0, 0 >>,
                       << 0, 0, 1, 0 >>, << 0, 0, 0, 1 >>))

\* Mt4::rot_vec, term by term as written in the source, at a multiple of 90
\* degrees; c + x * x * (1 - c) is exactly 1 in f64 too for x = 1
rot_vec(x, y, z, degrees) ==
    LET c == dcos(degrees) \div 1000
        s == dsin(degrees) \div 1000
    IN  transposed(Mt4(
          << c + x * x * (1 - c), x * y * (1 - c) - z * s, x * z * (1 - c) + y * s, 0 >>,
          << y * x * (1 - c) + z * s, c + y * y * (1 - c), y * z * (1 - c) - x * s, 0 >>,
          << z * x * (1 - c) - z * s, z * y * (1 - c) + x * s, c + z * z * (1 - c), 0 >>,
          << 0, 0, 0, 1 >>))

\* Pt3s::apply_matrix
apply_matrix(pts, matrix) ==
    [i \in 1..Len(pts) |-> pt4_as_pt3(MulPt4(matrix, as_pt4(pts[i], 1)))]

Shifts == (-MaxShift..MaxShift) \X (-MaxShift..MaxShift) \X (-MaxShift..MaxShift)
Corners == (0..1) \X (0..1) \X (0..1)
PrincipalAxes == {<< 1, 0, 0 >>, << 0, 1, 0 >>, << 0, 0, 1 >>}
QuarterTurns == {0, 90, 180, 270}

Mt4Calls ==
    {[op |-> "mul", t |-> t, p |-> p] : t \in Shifts, p \in Corners}
    \cup {[op |-> "apply_matrix", t |-> t, pts |-> << p, q >>] :
            t \in Shifts, p \in Corners, q \in Corners}
    \cup {[op |-> "rot_vec", axis |-> a, degrees |-> d] :
            a \in PrincipalAxes, d \in QuarterTurns}

InitMt4 ==
    /\ vertices = <<>>
    /\ polygon = <<>>
    /\ triangles = <<>>
    /\ pc = "call"
    /\ call \in Mt4Calls
    /\ mesh = NoMesh
    /\ chain = NoChain
    /\ result = NoResult

\* Mt4::translate_matrix(tx, ty, tz) * Pt4::new(x, y, z, 1.0)
MulTranslate ==
    /\ pc = "call"
    /\ call.op = "mul"
    /\ result' = [ok |-> TRUE,
                  pt |-> MulPt4(translate_matrix(call.t[1], call.t[2], call.t[3]),
                                as_pt4(call.p, 1))]
    /\ pc' = "returned"
    /\ UNCHANGED <<vertices, polygon, triangles, call, mesh, chain>>

\* pts.apply_matrix(&Mt4::translate_matrix(tx, ty, tz))
ApplyTranslate ==
    /\ pc = "call"
    /\ call.op = "apply_matrix"
    /\ result' = [ok |-> TRUE,
                  pts |-> apply_matrix(call.pts,
                             translate_matrix(call.t[1], call.t[2], call.t[3]))]
    /\ pc' = "returned"
    /\ UNCHANGED <<vertices, polygon, triangles, call, mesh, chain>>

\* Mt4::rot_vec(x, y, z, degrees)
RotVec ==
    /\ pc = "call"
    /\ call.op = "rot_vec"
    /\ result' = [ok |-> TRUE,
                  m |-> rot_vec(call.axis[1], call.axis[2], call.axis[3],
                                call.degrees)]
    /\ pc' = "returned"
    /\ UNCHANGED <<vertices, polygon, triangles, call, mesh, chain>>

NextMt4 == MulTranslate \/ ApplyTranslate \/ RotVec
SpecMt4 == InitMt4 /\ [][NextMt4]_vars

\* C28: the translation matrix times the point (x, y, z) carried with w = 1
\* is (x + tx, y + ty, z + tz), and apply_matrix with a translation matrix
\* moves every point of the list by (tx, ty, tz)
C28_TranslationMoves ==
    pc = "returned" =>
        /\ call.op = "mul" => pt4_as_pt3(result.pt) = Add3(call.p, call.t)
        /\ call.op = "apply_matrix" =>
              \A i \in 1..Len(call.pts) : result.pts[i] = Add3(call.pts[i], call.t)

\* the single-axis matrix of a principal axis
AxisMatrix(axis, degrees) ==
    IF axis = << 1, 0, 0 >> THEN rot_x_matrix(degrees)
    ELSE IF axis = << 0, 1, 0 >> THEN rot_y_matrix(degrees)
    ELSE rot_z_matrix(degrees)

\* C30: rot_vec about a principal unit axis by 0, 90, 180 or 270 degrees is
\* the matrix rot_x_matrix, rot_y_matrix or rot_z_matrix of that axis gives
C30_RotVecIsAxisRotation ==
    (pc = "returned" /\ call.op = "rot_vec") =>
        result.m = AxisMatrix(call.axis, call.degrees)

\* ------------------------------------------------- resize! (scad.rs)
\* `{}` of a bool, and of an f64 or u64 holding a small whole number
FmtBool(b) == IF b THEN "true" ELSE "false"
FmtNum(n) == ToString(n)
\* Display for Pt3
FmtPt3(p) == "[" \o FmtNum(p[1]) \o ", " \o FmtNum(p[2]) \o ", " \o FmtNum(p[3]) \o "]"

\* the arms of resize!: auto is absent (v = <<>>), one bool (v = <<b>>) or a
\* vector of three bools; convexity is given or defaults to 1
resize(newsize, auto, has_convexity, convexity) ==
    [newsize |-> newsize,
     auto |-> IF Len(auto) = 1 THEN auto[1] ELSE FALSE,
     auto_is_vec |-> Len(auto) = 3,
     autovec |-> IF Len(auto) = 3 THEN auto ELSE << FALSE, FALSE, FALSE >>,
     convexity |-> IF has_convexity THEN convexity ELSE 1]

\* Display for ScadOp::Resize: the line that opens the node
FmtResize(op) ==
    IF op.auto_is_vec
    THEN "resize(newsize=" \o FmtPt3(op.newsize) \o ", auto=" \o FmtBool(op.auto)
            \o ", convexity=" \o FmtNum(op.convexity) \o ") {\n"
    ELSE "resize(newsize=" \o FmtPt3(op.newsize) \o ", auto=["
            \o FmtBool(op.autovec[1]) \o ", " \o FmtBool(op.autovec[2]) \o ", "
            \o FmtBool(op.autovec[3]) \o "], convexity=" \o FmtNum(op.convexity)
            \o ") {\n"

Autos ==
    {<<>>} \cup {<< b >> : b \in BOOLEAN}
           \cup {<< x, y, z >> : x \in BOOLEAN, y \in BOOLEAN, z \in BOOLEAN}

ResizeCalls ==
    {[op |-> "resize", newsize |-> << x, y, z >>, auto |-> a,
      has_convexity |-> h, convexity |-> IF h THEN c ELSE 1] :
        x \in 0..MaxNewsize, y \in 0..MaxNewsize, z \in 0..MaxNewsize,
        a \in Autos, h \in BOOLEAN, c \in 1..MaxConvexity}

InitResize ==
    /\ vertices = <<>>
    /\ polygon = <<>>
    /\ triangles = <<>>
    /\ pc = "call"
    /\ call \in ResizeCalls
    /\ mesh = NoMesh
    /\ chain = NoChain
    /\ result = NoResult

\* resize!(..) builds the node
ResizeMacro ==
    /\ pc = "call"
    /\ call.op = "resize"
    /\ result' = [ok |-> TRUE,
                  node |-> resize(call.newsize, call.auto, call.has_convexity,
                                  call.convexity),
                  text |-> ""]
    /\ pc' = "built"
    /\ UNCHANGED <<vertices, polygon, triangles, call, mesh, chain>>

\* the node is written out
ResizeDisplay ==
    /\ pc = "built"
    /\ call.op = "resize"
    /\ result' = [result EXCEPT !.text = FmtResize(result.node)]
    /\ pc' = "returned"
    /\ UNCHANGED <<vertices, polygon, triangles, call, mesh, chain>>

NextResize == ResizeMacro \/ ResizeDisplay
SpecResize == InitResize /\ [][NextResize]_vars

\* what the caller wrote after `auto=`
CallerAuto(auto) ==
    IF Len(auto) = 3
    THEN "[" \o FmtBool(auto[1]) \o ", " \o FmtBool(auto[2]) \o ", "
             \o FmtBool(auto[3]) \o "]"
    ELSE FmtBool(auto[1])

\* C29: a resize node built with a vector of three bools is written with
\* auto=[ax, ay, az], one built with a single bool with auto=<bool>: the text
\* shows the value the caller gave
C29_AutoShowsCallerValue ==
    (pc = "returned" /\ call.op = "resize" /\ Len(call.auto) > 0) =>
        result.text = "resize(newsize=" \o FmtPt3(call.newsize) \o ", auto="
                        \o CallerAuto(call.auto) \o ", convexity="
                        \o FmtNum(result.node.convexity) \o ") {\n"

====
